---- MODULE Spec2Model ----
(***************************************************************************)
(* The interactive session of concmd (src/alt_tui.rs): the App state, the  *)
(* key and mouse translation, the update function with its chained         *)
(* messages, the draw pass that re-clamps the list cursors, and the loop   *)
(* of run().  The document store is the set of pages per space that the    *)
(* HTTP calls of conf_api.rs read and change.                              *)
(*                                                                         *)
(* A String is the sequence of its UTF-8 bytes, because the text field     *)
(* code indexes by byte (String::len, insert, remove).  A usize that can   *)
(* hold usize::MAX is an integer with UsizeMax standing for usize::MAX.    *)
(***************************************************************************)
EXTENDS Integers, Sequences, FiniteSets, TLC

(***************************************************************************)
(* Bounds of the model                                                     *)
(***************************************************************************)
\* longest text, in bytes, the user types into a popup
MaxLen == 2
\* how far a cursor over a list that is not drawn may drift from 0
MaxStray == 1
\* rows of a list the terminal shows
ListHeight == 1
\* columns of the terminal: the space list is [SpaceLeft, SpaceRight), the
\* page list [SpaceRight, PageRight)
SpaceRight == 2
PageRight == 4

(***************************************************************************)
(* Option<usize>::None, usize::MAX                                         *)
(***************************************************************************)
None == -1
UsizeMax == 2147483647

Min(a, b) == IF a < b THEN a ELSE b

(***************************************************************************)
(* Strings: UTF-8 byte sequences                                           *)
(***************************************************************************)
\* the characters of the model, as their UTF-8 encodings
Ch_a == <<97>>
Ch_b == <<98>>
Ch_A == <<65>>
Ch_eacute == <<195, 169>>

IsContinuation(byte) == byte >= 128 /\ byte <= 191

\* str::is_char_boundary(idx), idx counted from 0
is_char_boundary(s, idx) ==
    \/ idx = 0
    \/ idx = Len(s)
    \/ idx < Len(s) /\ ~IsContinuation(s[idx + 1])

\* the number of bytes of the character that starts at byte idx (from 0)
RECURSIVE CharEnd(_, _)
CharEnd(s, idx) ==
    IF idx >= Len(s) \/ ~IsContinuation(s[idx + 1]) THEN idx ELSE CharEnd(s, idx + 1)

\* String::insert(idx, ch): the caller has checked is_char_boundary
string_insert(s, idx, ch) == SubSeq(s, 1, idx) \o ch \o SubSeq(s, idx + 1, Len(s))

\* String::remove(idx): removes the whole character starting at byte idx
string_remove(s, idx) == SubSeq(s, 1, idx) \o SubSeq(s, CharEnd(s, idx + 1) + 1, Len(s))

\* char::to_lowercase on the bytes: only ASCII capitals change
LowerByte(byte) == IF byte >= 65 /\ byte <= 90 THEN byte + 32 ELSE byte

to_lowercase(s) == [i \in 1..Len(s) |-> LowerByte(s[i])]

\* str::contains(pattern)
contains(s, pat) ==
    \E i \in 0..(Len(s) - Len(pat)) : SubSeq(s, i + 1, i + Len(pat)) = pat

\* Ord for String: byte-wise lexicographic
RECURSIVE StrLess(_, _)
StrLess(s, t) ==
    IF t = <<>> THEN FALSE
    ELSE IF s = <<>> THEN TRUE
    ELSE IF s[1] # t[1] THEN s[1] < t[1]
    ELSE StrLess(Tail(s), Tail(t))

(***************************************************************************)
(* ratatui::widgets::ListState                                             *)
(***************************************************************************)
ListStateDefault == [selected |-> None, offset |-> 0]

\* ListState::select
select(ls, index) ==
    [selected |-> index, offset |-> IF index = None THEN 0 ELSE ls.offset]

select_first(ls) == select(ls, 0)

select_last(ls) == select(ls, UsizeMax)

\* saturating_add(1)
select_next(ls) ==
    select(ls, IF ls.selected = None THEN 0
               ELSE IF ls.selected = UsizeMax THEN UsizeMax
               ELSE ls.selected + 1)

\* saturating_sub(1)
select_previous(ls) ==
    select(ls, IF ls.selected = None THEN UsizeMax
               ELSE IF ls.selected = 0 THEN 0
               ELSE ls.selected - 1)

\* List::render with a ListState over `length` one-row items in `height` rows:
\* an empty list clears the selection; a selection past the end becomes the
\* last item; the offset follows the selection into view.
render_list(ls, length, height) ==
    IF length = 0 THEN select(ls, None)
    ELSE LET sel == IF ls.selected # None /\ ls.selected >= length
                    THEN length - 1 ELSE ls.selected
             off == Min(ls.offset, length - 1)
             last == off + Min(height, length - off)
             shown == IF sel = None THEN off ELSE sel
             first == IF shown >= last THEN shown - height + 1
                      ELSE IF shown < off THEN shown
                      ELSE off
         IN [selected |-> sel, offset |-> first]

(***************************************************************************)
(* conf_api.rs: spaces, pages and the store behind the HTTP calls          *)
(***************************************************************************)
\* Space: only the id is read by the session
StoreSpaces == <<1, 2, 3>>

\* Page {id, title, created_at, space_id}; created_at is <<date, time>>, the
\* first 10 bytes of the timestamp and the rest
MkPage(id, title, created_at, space_id) ==
    [id |-> id, title |-> title, created_at |-> created_at, space_id |-> space_id]

\* the pages the store holds when the session starts, in the order the
\* server lists them: two in space 1, none in space 2, one in space 3
InitPages ==
    << MkPage(1, Ch_A, <<2, 1>>, 1),
       MkPage(2, Ch_b, <<1, 1>>, 1),
       MkPage(3, Ch_a, <<1, 2>>, 3) >>

RECURSIVE InSpace(_, _)
InSpace(pages, space_id) ==
    IF pages = <<>> THEN <<>>
    ELSE IF Head(pages).space_id = space_id
         THEN <<Head(pages)>> \o InSpace(Tail(pages), space_id)
         ELSE InSpace(Tail(pages), space_id)

\* the time the server stamps on a page created during the session: later
\* on the day page 1 was created
NowStamp == <<2, 2>>

\* Page::get_date_created: created_at.split_at(10).0, or "" when absent
get_date_created(page) ==
    IF page.created_at = <<>> THEN 0 ELSE page.created_at[1]

\* Attr::get_name for Page
get_name(page) == page.title

\* Page::get_pages: the pages of a space as the server lists them
get_pages(store, space_id) ==
    IF space_id \in DOMAIN store.pages THEN store.pages[space_id] ELSE <<>>

\* Page::create through actions::create_new_page: Page::new(title, space.id)
\* is posted; the server gives it an id and a creation time
create_new_page(store, space_id, title) ==
    [store EXCEPT
        !.pages[space_id] = Append(@, MkPage(store.next_id, title, NowStamp, space_id)),
        !.next_id = @ + 1]

RECURSIVE WithoutId(_, _)
WithoutId(pages, id) ==
    IF pages = <<>> THEN <<>>
    ELSE IF Head(pages).id = id THEN WithoutId(Tail(pages), id)
    ELSE <<Head(pages)>> \o WithoutId(Tail(pages), id)

\* Page::delete
delete_page(store, page) ==
    [store EXCEPT
        !.pages = [sp \in DOMAIN store.pages |-> WithoutId(store.pages[sp], page.id)]]

\* Page::update_title
update_page_title(store, page, new_title) ==
    [store EXCEPT
        !.pages = [sp \in DOMAIN store.pages |->
                    [i \in 1..Len(store.pages[sp]) |->
                        IF store.pages[sp][i].id = page.id
                        THEN [store.pages[sp][i] EXCEPT !.title = new_title]
                        ELSE store.pages[sp][i]]]]

(***************************************************************************)
(* alt_tui.rs: App                                                         *)
(***************************************************************************)
sort_types_array == <<"CreatedOn", "Title">>

\* the Sort of App::new and of reset_sort
SortDefault ==
    [type_state |-> select_first(ListStateDefault),
     dir_state |-> "Asc",
     saved_state |-> [type_state |-> ListStateDefault, dir_state |-> "Asc"]]

BoundsDefault == [left |-> 0, right |-> 0, top |-> 0]

\* HashMap<String, PageState> with no entry
EmptyMap == [id \in {} |-> "Saved"]

\* App::new
AppNew(space_list) ==
    [space_list |-> space_list,
     page_list |-> <<>>,
     space_list_state |-> ListStateDefault,
     page_list_state |-> ListStateDefault,
     current_area |-> "Spaces",
     exit |-> FALSE,
     edited_file_path |-> None,
     page_states_map |-> EmptyMap,
     new_page_title |-> <<>>,
     cursor_negative_offset |-> 0,
     search |-> [current_search |-> <<>>, search_active |-> FALSE],
     sort |-> SortDefault,
     space_list_pos |-> BoundsDefault,
     page_list_pos |-> BoundsDefault,
     page_updated_title |-> <<>>]

\* the key sort_by_key orders by; Reverse(key) for Desc
\* TRUE when page p must come after page q
SortsAfter(p, q, sort_type, sort_dir) ==
    IF sort_type = "Title"
    THEN IF sort_dir = "Asc" THEN StrLess(q.title, p.title) ELSE StrLess(p.title, q.title)
    ELSE IF sort_dir = "Asc" THEN get_date_created(q) < get_date_created(p)
         ELSE get_date_created(p) < get_date_created(q)

\* one step of a stable sort: p goes after every page it does not precede
RECURSIVE InsertStable(_, _, _, _)
InsertStable(sorted, p, sort_type, sort_dir) ==
    IF sorted = <<>> THEN <<p>>
    ELSE IF SortsAfter(Head(sorted), p, sort_type, sort_dir)
         THEN <<p>> \o sorted
         ELSE <<Head(sorted)>> \o InsertStable(Tail(sorted), p, sort_type, sort_dir)

RECURSIVE SortStable(_, _, _)
SortStable(pages, sort_type, sort_dir) ==
    IF pages = <<>> THEN <<>>
    ELSE InsertStable(SortStable(SubSeq(pages, 1, Len(pages) - 1), sort_type, sort_dir),
                      pages[Len(pages)], sort_type, sort_dir)

\* App::sort_pages: Vec::sort_by_key is a stable sort
sort_pages(a, sort_type, sort_dir) ==
    [a EXCEPT !.page_list = SortStable(a.page_list, sort_type, sort_dir)]

\* the fetched pages kept in the order the server lists them
load_pages_unsorted(a, store, space_id) ==
    [a EXCEPT !.page_list = get_pages(store, space_id)]

\* App::load_pages, when the fetch succeeds
load_pages(a, store, space_id) ==
    sort_pages([a EXCEPT !.page_list = get_pages(store, space_id)], "CreatedOn", "Asc")

\* Vec::get(index) for an Option<usize> index: None when out of range
get_selected_space(a) ==
    IF a.space_list_state.selected # None /\ a.space_list_state.selected < Len(a.space_list)
    THEN a.space_list[a.space_list_state.selected + 1]
    ELSE None

HasSelectedPage(a) ==
    a.page_list_state.selected # None /\ a.page_list_state.selected < Len(a.page_list)

\* App::get_selected_page; read only where HasSelectedPage holds
get_selected_page(a) == a.page_list[a.page_list_state.selected + 1]

(***************************************************************************)
(* List navigation                                                         *)
(***************************************************************************)
IsListArea(area) == area \in {"Spaces", "Pages", "SortPopup"}

\* the (list_state, list_length) the match of list_next picks
FocusedState(a) ==
    CASE a.current_area = "Spaces" -> a.space_list_state
      [] a.current_area = "Pages" -> a.page_list_state
      [] OTHER -> a.sort.type_state

FocusedLength(a) ==
    CASE a.current_area = "Spaces" -> Len(a.space_list)
      [] a.current_area = "Pages" -> Len(a.page_list)
      [] OTHER -> Len(sort_types_array)

SetFocused(a, ls) ==
    CASE a.current_area = "Spaces" -> [a EXCEPT !.space_list_state = ls]
      [] a.current_area = "Pages" -> [a EXCEPT !.page_list_state = ls]
      [] OTHER -> [a EXCEPT !.sort.type_state = ls]

\* what a method that can panic gives back: the App it leaves and whether
\* it panicked
Good(a) == [app |-> a, res |-> "ok"]
Panicked(a) == [app |-> a, res |-> "panic"]

\* list_next with the wrap at the end of the list left out
list_next_no_wrap(a, wrap) ==
    IF ~IsListArea(a.current_area) THEN Good(a)
    ELSE Good(SetFocused(a, select_next(FocusedState(a))))

\* App::list_next.  list_length - 1 is a usize subtraction: on an empty list
\* it panics in a build with overflow checks and wraps to usize::MAX in one
\* without (wrap says which).
list_next(a, wrap) ==
    IF ~IsListArea(a.current_area) THEN Good(a)
    ELSE LET ls == FocusedState(a)
             n == FocusedLength(a)
         IN IF ls.selected # None
            THEN IF n = 0 /\ ~wrap THEN Panicked(a)
                 ELSE IF ls.selected >= (IF n = 0 THEN UsizeMax ELSE n - 1)
                      THEN Good(SetFocused(a, select_first(ls)))
                      ELSE Good(SetFocused(a, select_next(ls)))
            ELSE Good(SetFocused(a, select_first(ls)))

\* list_previous with select_previous at index 0 too
list_previous_no_wrap(a) ==
    IF ~IsListArea(a.current_area) THEN a
    ELSE SetFocused(a, select_previous(FocusedState(a)))

\* App::list_previous
list_previous(a) ==
    IF ~IsListArea(a.current_area) THEN a
    ELSE LET ls == FocusedState(a)
         IN IF ls.selected # None
            THEN IF ls.selected = 0
                 THEN SetFocused(a, select_last(ls))
                 ELSE SetFocused(a, select_previous(ls))
            ELSE SetFocused(a, select_last(ls))

\* App::mouse_select_list.  list_length - offset is a usize subtraction: a
\* panic in a build with overflow checks; in one without, the sum with
\* top_ui_offset wraps back when it is not negative and is larger than any
\* row when it is.
\* the row under the pointer taken as the index, the scroll offset ignored
mouse_select_list_no_offset(a, x, y, wrap) ==
    IF a.current_area \notin {"Spaces", "Pages"} THEN Good(a)
    ELSE LET ls == FocusedState(a)
             n == FocusedLength(a)
             pos == IF a.current_area = "Spaces" THEN a.space_list_pos ELSE a.page_list_pos
             top_ui_offset == pos.top + 1
         IN IF n < ls.offset /\ ~wrap THEN Panicked(a)
            ELSE IF \/ x <= pos.left
                    \/ x >= pos.right
                    \/ y <= pos.top
                    \/ /\ n - ls.offset + top_ui_offset >= 0
                       /\ y >= n - ls.offset + top_ui_offset
                 THEN Good(SetFocused(a, select(ls, None)))
                 ELSE Good(SetFocused(a, select(ls, y - top_ui_offset)))

mouse_select_list(a, x, y, wrap) ==
    IF a.current_area \notin {"Spaces", "Pages"} THEN Good(a)
    ELSE LET ls == FocusedState(a)
             n == FocusedLength(a)
             pos == IF a.current_area = "Spaces" THEN a.space_list_pos ELSE a.page_list_pos
             top_ui_offset == pos.top + 1
             under == n < ls.offset
         IN IF under /\ ~wrap THEN Panicked(a)
            ELSE IF \/ x <= pos.left
                    \/ x >= pos.right
                    \/ y <= pos.top
                    \/ /\ n - ls.offset + top_ui_offset >= 0
                       /\ y >= n - ls.offset + top_ui_offset
                 THEN Good(SetFocused(a, select(ls, None)))
                 ELSE LET index == (y - top_ui_offset) + ls.offset
                      IN IF index >= 0 THEN Good(SetFocused(a, select(ls, index)))
                         ELSE Good(a)

(***************************************************************************)
(* The text field shared by the three text popups                          *)
(***************************************************************************)
IsTextArea(area) == area \in {"NewPagePopup", "SearchPopup", "TitlePopup"}

\* the String the match on current_area picks
CurrentText(a) ==
    CASE a.current_area = "NewPagePopup" -> a.new_page_title
      [] a.current_area = "SearchPopup" -> a.search.current_search
      [] OTHER -> a.page_updated_title

SetCurrentText(a, text) ==
    CASE a.current_area = "NewPagePopup" -> [a EXCEPT !.new_page_title = text]
      [] a.current_area = "SearchPopup" -> [a EXCEPT !.search.current_search = text]
      [] OTHER -> [a EXCEPT !.page_updated_title = text]

\* App::type_char.  len - offset underflows when offset > len (then insert
\* panics in either build); String::insert panics off a char boundary.
type_char(a, ch) ==
    IF ~IsTextArea(a.current_area) THEN Good(a)
    ELSE LET text == CurrentText(a)
             current_cursor_position == Len(text) - a.cursor_negative_offset
         IN IF current_cursor_position < 0 THEN Panicked(a)
            ELSE IF ~is_char_boundary(text, current_cursor_position) THEN Panicked(a)
            ELSE Good(SetCurrentText(a, string_insert(text, current_cursor_position, ch)))

\* App::backspace_text.  String::remove panics off a char boundary.
backspace_text(a) ==
    IF ~IsTextArea(a.current_area) THEN Good(a)
    ELSE LET text == CurrentText(a)
             current_length == Len(text)
             sub == current_length - (a.cursor_negative_offset + 1)
             current_cursor_position == IF sub < 0 THEN 0 ELSE sub
         IN IF current_length # 0 /\ current_length # a.cursor_negative_offset
            THEN IF ~is_char_boundary(text, current_cursor_position) THEN Panicked(a)
                 ELSE Good(SetCurrentText(a, string_remove(text, current_cursor_position)))
            ELSE Good(a)

\* App::cursor_left
cursor_left(a) ==
    IF ~IsTextArea(a.current_area) THEN a
    ELSE IF a.cursor_negative_offset < Len(CurrentText(a))
         THEN [a EXCEPT !.cursor_negative_offset = @ + 1]
         ELSE a

\* App::cursor_right: saturating_sub(1), in every area
cursor_right(a) ==
    [a EXCEPT !.cursor_negative_offset = IF @ = 0 THEN 0 ELSE @ - 1]

\* the offset left where the user put it
reset_cursor_kept(a) == a

\* App::reset_cursor
reset_cursor(a) == [a EXCEPT !.cursor_negative_offset = 0]

(***************************************************************************)
(* Sort and search                                                         *)
(***************************************************************************)
\* App::get_selected_sort is Some
HasSelectedSort(a) == a.sort.type_state.selected # None

\* App::get_selected_sort, where it is Some: <<type, direction>>
get_selected_sort(a) ==
    <<sort_types_array[a.sort.type_state.selected + 1], a.sort.dir_state>>

\* App::set_sort
set_sort(a) ==
    LET saved == [a EXCEPT !.sort.saved_state =
                      [type_state |-> a.sort.type_state, dir_state |-> a.sort.dir_state]]
        chosen == get_selected_sort(saved)
    IN IF HasSelectedSort(saved) THEN sort_pages(saved, chosen[1], chosen[2]) ELSE saved

\* App::reset_sort_state
reset_sort_state(a) ==
    [a EXCEPT !.sort.type_state = a.sort.saved_state.type_state,
              !.sort.dir_state = a.sort.saved_state.dir_state]

\* App::toggle_sort_dir
toggle_sort_dir(a) ==
    [a EXCEPT !.sort.dir_state = IF @ = "Asc" THEN "Desc" ELSE "Asc"]

\* App::reset_search
reset_search(a) ==
    IF a.search.search_active
    THEN [a EXCEPT !.search = [current_search |-> <<>>, search_active |-> FALSE]]
    ELSE a

\* App::reset_sort
reset_sort(a) == [a EXCEPT !.sort = SortDefault]

\* every save state forgotten when a page is opened
clear_all_saved_states(a, page_id) == [a EXCEPT !.page_states_map = EmptyMap]

\* App::clear_page_saved_state: HashMap::remove
clear_page_saved_state(a, page_id) ==
    [a EXCEPT !.page_states_map = [k \in (DOMAIN @) \ {page_id} |-> @[k]]]

\* HashMap::insert
MapInsert(map, key, value) ==
    [k \in (DOMAIN map) \cup {key} |-> IF k = key THEN value ELSE map[k]]

\* Vec::retain of Message::ConfirmSearch
RECURSIVE Retain(_, _)
Retain(pages, query) ==
    IF pages = <<>> THEN <<>>
    ELSE IF contains(to_lowercase(get_name(Head(pages))), to_lowercase(query))
         THEN <<Head(pages)>> \o Retain(Tail(pages), query)
         ELSE Retain(Tail(pages), query)

(***************************************************************************)
(* Messages                                                                *)
(***************************************************************************)
\* a Message: its variant, and the payload of TypeChar and MouseSelect
Msg(t) == [t |-> t, c |-> <<>>, x |-> 0, y |-> 0]
TypeChar(c) == [t |-> "TypeChar", c |-> c, x |-> 0, y |-> 0]
MouseSelect(x, y) == [t |-> "MouseSelect", c |-> <<>>, x |-> x, y |-> y]
\* Option<Message>::None
NoMsg == Msg("None")

(***************************************************************************)
(* update: one arm per Message.  An arm takes and gives a record           *)
(*   app, store : the App and the store after the arm                      *)
(*   history    : the id in history.txt, None for an empty file            *)
(*   terminal   : "held", "cleared" or "released" (see VARIABLES)          *)
(*   upload     : <<page id, file>> when the arm has uploaded the file as  *)
(*                the body of the page, <<>> when it has uploaded nothing  *)
(*   next       : the chained message, NoMsg for Ok(None)                  *)
(*   res        : "ok", "err" (the ? of a failed store call), "panic"      *)
(* ok says whether the store call of the arm succeeds.                     *)
(***************************************************************************)
Done(w, a) == [w EXCEPT !.app = a]
Chain(w, a, t) == [w EXCEPT !.app = a, !.next = Msg(t)]
Err(w, a) == [w EXCEPT !.app = a, !.res = "err"]
Panic(w, a) == [w EXCEPT !.app = a, !.res = "panic"]
Lift(w, r) == [w EXCEPT !.app = r.app, !.res = r.res]

\* App::refresh_current_list: a panic, a failed load, or the reloaded App
refresh_current_list(a, store, ok) ==
    CASE a.current_area = "Pages" ->
            IF get_selected_space(a) = None THEN Panicked(a)
            ELSE IF ~ok THEN [app |-> a, res |-> "err"]
            ELSE Good(load_pages(a, store, get_selected_space(a)))
      [] a.current_area = "Spaces" ->
            IF ~ok THEN [app |-> a, res |-> "err"]
            ELSE Good([a EXCEPT !.space_list = store.spaces])
      [] OTHER -> Panicked(a)

\* an Exit that uploads the edit the save popup is asking about
upd_Exit_saves(w) ==
    IF w.app.current_area = "SavePopup"
    THEN Chain(w, [w.app EXCEPT !.exit = TRUE], "Save")
    ELSE Done(w, [w.app EXCEPT !.exit = TRUE])

upd_Exit(w) == Done(w, [w.app EXCEPT !.exit = TRUE])

upd_ListNext(w, wrap) == Lift(w, list_next(w.app, wrap))

upd_ListPrevious(w) == Done(w, list_previous(w.app))

upd_Select(w, ok) ==
    LET a == w.app
    IN CASE a.current_area = "Spaces" ->
              IF get_selected_space(a) # None
              THEN IF ~ok THEN Err(w, a)
                   ELSE Done(w, [load_pages(a, w.store, get_selected_space(a))
                                    EXCEPT !.current_area = "Pages"])
              ELSE Done(w, a)
         [] a.current_area = "Pages" -> Chain(w, a, "OpenEditor")
         [] OTHER -> Done(w, a)

\* run_editor, first half: LeaveAlternateScreen and disable_raw_mode
leave_terminal(w) == [w EXCEPT !.terminal = "released"]

\* actions::edit_page: save_and_edit_page writes <save_location>/<id>.md and
\* runs the editor on it until it exits, then update_edited_history writes
\* the page's id to history.txt; any of the calls can fail
edit_page(w, page, ok) ==
    IF ok THEN [w EXCEPT !.history = page.id] ELSE [w EXCEPT !.res = "err"]

\* the editor's screen kept: no re-entry, no clear
enter_terminal_skipped(w, ok) == IF ok THEN w ELSE [w EXCEPT !.res = "err"]

\* run_editor, second half: EnterAlternateScreen, enable_raw_mode and
\* terminal.clear(); any of the calls can fail
enter_terminal(w, ok) ==
    IF ok THEN [w EXCEPT !.terminal = "cleared"] ELSE [w EXCEPT !.res = "err"]

\* the App once run_editor has given the path <save_location>/<id>.md
editor_closed(a, page) ==
    [a EXCEPT !.edited_file_path = page.id, !.current_area = "SavePopup"]

\* the editor call as one step; ok says whether edit_page succeeds
upd_OpenEditor(w, ok) ==
    LET a == w.app
    IN IF HasSelectedPage(a)
       THEN LET page == get_selected_page(a)
                cleared == clear_page_saved_state(a, page.id)
                edited == edit_page(leave_terminal(Done(w, cleared)), page, ok)
            IN IF edited.res = "err" THEN edited
               ELSE Done(enter_terminal(edited, TRUE), editor_closed(cleared, page))
       ELSE Done(w, a)

\* actions::upload_page with UploadType::Update: the file becomes the body of
\* the page, which page.update sends to the store
upload_page(w, page, file_path) == [w EXCEPT !.upload = <<page.id, file_path>>]

upd_ConfirmSave(w) ==
    LET a == w.app
    IN IF a.current_area = "SavePopup"
       THEN IF HasSelectedPage(a)
            THEN Chain(w, [a EXCEPT !.page_states_map =
                                MapInsert(@, get_selected_page(a).id, "Saved")], "Save")
            ELSE Panic(w, a)
       ELSE Done(w, a)

\* a RejectSave that uploads the edit before it closes the popup
upd_RejectSave_uploads(w) ==
    LET a == w.app
    IN IF a.current_area = "SavePopup" /\ HasSelectedPage(a)
       THEN upload_page(Done(w, [a EXCEPT !.current_area = "Pages",
                                          !.page_states_map =
                                            MapInsert(@, get_selected_page(a).id, "NotSaved")]),
                        get_selected_page(a), a.edited_file_path)
       ELSE Done(w, a)

upd_RejectSave(w) ==
    LET a == w.app
    IN IF a.current_area = "SavePopup" /\ HasSelectedPage(a)
       THEN Done(w, [a EXCEPT !.current_area = "Pages",
                              !.page_states_map =
                                MapInsert(@, get_selected_page(a).id, "NotSaved")])
       ELSE Done(w, a)

\* the upload answered by Ok(None)
upd_Save_no_refresh(w, ok) ==
    LET a == w.app
    IN IF a.current_area = "SavePopup"
       THEN IF ~HasSelectedPage(a) THEN Panic(w, a)
            ELSE IF ~ok THEN Err(w, a)
            ELSE upload_page(Done(w, [a EXCEPT !.current_area = "Pages"]),
                             get_selected_page(a), a.edited_file_path)
       ELSE Done(w, a)

upd_Save(w, ok) ==
    LET a == w.app
    IN IF a.current_area = "SavePopup"
       THEN IF ~HasSelectedPage(a) THEN Panic(w, a)
            ELSE IF ~ok THEN Err(w, a)
            ELSE upload_page(Chain(w, [a EXCEPT !.current_area = "Pages"], "Refresh"),
                             get_selected_page(a), a.edited_file_path)
       ELSE Done(w, a)

\* the page list and its state kept when the user goes back to the spaces
upd_Back_keep_pages(w) ==
    LET a == w.app
        left == CASE a.current_area = "Pages" -> [a EXCEPT !.current_area = "Spaces"]
                  [] a.current_area = "Spaces" ->
                        [a EXCEPT !.space_list_state = ListStateDefault]
                  [] OTHER -> a
    IN Done(w, reset_search(left))

upd_Back(w) ==
    LET a == w.app
        left == CASE a.current_area = "Pages" ->
                        [a EXCEPT !.page_list = <<>>,
                                  !.page_list_state = ListStateDefault,
                                  !.current_area = "Spaces"]
                  [] a.current_area = "Spaces" ->
                        [a EXCEPT !.space_list_state = ListStateDefault]
                  [] OTHER -> a
    IN Done(w, reset_search(left))

upd_Refresh(w, ok) ==
    Lift(w, refresh_current_list(reset_sort(reset_search(w.app)), w.store, ok))

upd_NewPage(w) == Done(w, [w.app EXCEPT !.current_area = "NewPagePopup"])

\* the popup closed with the title and the cursor left as typed
upd_CancelNewPage_keep_title(w) == Done(w, [w.app EXCEPT !.current_area = "Pages"])

upd_CancelNewPage(w) ==
    Done(w, reset_cursor([w.app EXCEPT !.current_area = "Pages",
                                       !.new_page_title = <<>>]))

\* the page created with the new-page popup left open
upd_SaveNewPage_stays(w, ok) ==
    LET a == w.app
    IN IF get_selected_space(a) = None THEN Panic(w, a)
       ELSE IF ~ok THEN Err(w, a)
       ELSE [Chain(w, reset_cursor(a), "Refresh")
                EXCEPT !.store = create_new_page(w.store, get_selected_space(a),
                                                 a.new_page_title)]

upd_SaveNewPage(w, ok) ==
    LET a == w.app
    IN IF get_selected_space(a) = None THEN Panic(w, a)
       ELSE IF ~ok THEN Err(w, a)
       ELSE [Chain(w, reset_cursor([a EXCEPT !.current_area = "Pages"]), "Refresh")
                EXCEPT !.store = create_new_page(w.store, get_selected_space(a),
                                                 a.new_page_title)]

upd_Backspace(w) == Lift(w, backspace_text(w.app))

upd_CursorLeft(w) == Done(w, cursor_left(w.app))

upd_CursorRight(w) == Done(w, cursor_right(w.app))

upd_TypeChar(w, value) == Lift(w, type_char(w.app, value))

\* the delete popup opened without asking for a selected page
upd_DeletePage_unguarded(w) == Done(w, [w.app EXCEPT !.current_area = "DeletePopup"])

upd_DeletePage(w) ==
    IF HasSelectedPage(w.app)
    THEN Done(w, [w.app EXCEPT !.current_area = "DeletePopup"])
    ELSE Done(w, w.app)

\* the first page of the list deleted, whichever is selected
upd_ConfirmDeletePage_first(w, ok) ==
    LET a == w.app
    IN IF ~HasSelectedPage(a) THEN Panic(w, a)
       ELSE IF ~ok THEN Err(w, a)
       ELSE [Chain(w, [a EXCEPT !.current_area = "Pages"], "Refresh")
                EXCEPT !.store = delete_page(w.store, a.page_list[1])]

upd_ConfirmDeletePage(w, ok) ==
    LET a == w.app
    IN IF ~HasSelectedPage(a) THEN Panic(w, a)
       ELSE IF ~ok THEN Err(w, a)
       ELSE [Chain(w, [a EXCEPT !.current_area = "Pages"], "Refresh")
                EXCEPT !.store = delete_page(w.store, get_selected_page(a))]

upd_CancelDeletePage(w) == Done(w, [w.app EXCEPT !.current_area = "Pages"])

upd_StartSearch(w) == Done(w, [w.app EXCEPT !.current_area = "SearchPopup"])

\* the ConfirmSearch arm without the reload of the unfiltered list
upd_ConfirmSearch_no_reload(w, ok) ==
    Done(w, reset_cursor(
                [w.app EXCEPT !.current_area = "Pages",
                              !.page_list = Retain(@, w.app.search.current_search),
                              !.search.search_active = TRUE]))

upd_ConfirmSearch(w, ok) ==
    LET a == [w.app EXCEPT !.current_area = "Pages"]
        r == IF a.search.search_active
             THEN refresh_current_list(a, w.store, ok)
             ELSE Good(a)
    IN IF r.res # "ok" THEN Lift(w, r)
       ELSE Done(w, reset_cursor(
                [r.app EXCEPT !.page_list = Retain(@, a.search.current_search),
                              !.search.search_active = TRUE]))

\* a cancel that leaves the query as typed
upd_CancelSearch_keeps(w) ==
    Done(w, reset_cursor([w.app EXCEPT !.current_area = "Pages"]))

upd_CancelSearch(w) ==
    LET a == w.app
        cleared == IF ~a.search.search_active
                   THEN [a EXCEPT !.search.current_search = <<>>]
                   ELSE a
    IN Done(w, reset_cursor([cleared EXCEPT !.current_area = "Pages"]))

\* show_preview and show_help only choose what draw paints; the model
\* does not hold them
upd_TogglePreview(w) == Done(w, w.app)

upd_ToggleHelp(w) == Done(w, w.app)

upd_StartSort(w) == Done(w, [w.app EXCEPT !.current_area = "SortPopup"])

upd_ConfirmSort(w) == Done(w, [set_sort(w.app) EXCEPT !.current_area = "Pages"])

\* a cancel that sorts the pages by what the popup shows
upd_CancelSort_applies(w) == Done(w, [set_sort(w.app) EXCEPT !.current_area = "Pages"])

upd_CancelSort(w) == Done(w, [reset_sort_state(w.app) EXCEPT !.current_area = "Pages"])

upd_ToggleSortDir(w) == Done(w, toggle_sort_dir(w.app))

upd_MouseSelect(w, x, y, wrap) == Lift(w, mouse_select_list(w.app, x, y, wrap))

\* the title popup opened on the first page of the list
upd_UpdateTitle_first(w) ==
    LET a == [w.app EXCEPT !.current_area = "TitlePopup",
                           !.page_list_state = select_first(@)]
    IN IF ~HasSelectedPage(a) THEN Panic(w, a)
       ELSE Done(w, [a EXCEPT !.page_updated_title = get_selected_page(a).title])

upd_UpdateTitle(w) ==
    LET a == [w.app EXCEPT !.current_area = "TitlePopup"]
    IN IF ~HasSelectedPage(a) THEN Panic(w, a)
       ELSE Done(w, [a EXCEPT !.page_updated_title = get_selected_page(a).title])

upd_CancelTitle(w) ==
    Done(w, reset_cursor([w.app EXCEPT !.current_area = "Pages",
                                       !.page_updated_title = <<>>]))

upd_ConfirmTitle(w, ok) ==
    LET a == w.app
    IN IF ~HasSelectedPage(a) THEN Panic(w, a)
       ELSE IF ~ok THEN Err(w, a)
       ELSE [Chain(w, [reset_cursor(a) EXCEPT !.current_area = "Pages"], "Refresh")
                EXCEPT !.store = update_page_title(w.store, get_selected_page(a),
                                                   a.page_updated_title)]

\* update(app, config, message, terminal)
update(w0, m, ok, wrap) ==
    LET w == [w0 EXCEPT !.upload = <<>>, !.next = NoMsg, !.res = "ok"]
    IN CASE m.t = "Exit" -> upd_Exit(w)
         [] m.t = "ListNext" -> upd_ListNext(w, wrap)
         [] m.t = "ListPrevious" -> upd_ListPrevious(w)
         [] m.t = "Select" -> upd_Select(w, ok)
         [] m.t = "OpenEditor" -> upd_OpenEditor(w, ok)
         [] m.t = "ConfirmSave" -> upd_ConfirmSave(w)
         [] m.t = "RejectSave" -> upd_RejectSave(w)
         [] m.t = "Save" -> upd_Save(w, ok)
         [] m.t = "Back" -> upd_Back(w)
         [] m.t = "Refresh" -> upd_Refresh(w, ok)
         [] m.t = "NewPage" -> upd_NewPage(w)
         [] m.t = "CancelNewPage" -> upd_CancelNewPage(w)
         [] m.t = "SaveNewPage" -> upd_SaveNewPage(w, ok)
         [] m.t = "Backspace" -> upd_Backspace(w)
         [] m.t = "CursorLeft" -> upd_CursorLeft(w)
         [] m.t = "CursorRight" -> upd_CursorRight(w)
         [] m.t = "TypeChar" -> upd_TypeChar(w, m.c)
         [] m.t = "DeletePage" -> upd_DeletePage(w)
         [] m.t = "ConfirmDeletePage" -> upd_ConfirmDeletePage(w, ok)
         [] m.t = "CancelDeletePage" -> upd_CancelDeletePage(w)
         [] m.t = "StartSearch" -> upd_StartSearch(w)
         [] m.t = "ConfirmSearch" -> upd_ConfirmSearch(w, ok)
         [] m.t = "CancelSearch" -> upd_CancelSearch(w)
         [] m.t = "TogglePreview" -> upd_TogglePreview(w)
         [] m.t = "ToggleHelp" -> upd_ToggleHelp(w)
         [] m.t = "StartSort" -> upd_StartSort(w)
         [] m.t = "ConfirmSort" -> upd_ConfirmSort(w)
         [] m.t = "CancelSort" -> upd_CancelSort(w)
         [] m.t = "ToggleSortDir" -> upd_ToggleSortDir(w)
         [] m.t = "MouseSelect" -> upd_MouseSelect(w, m.x, m.y, wrap)
         [] m.t = "UpdateTitle" -> upd_UpdateTitle(w)
         [] m.t = "CancelTitle" -> upd_CancelTitle(w)
         [] m.t = "ConfirmTitle" -> upd_ConfirmTitle(w, ok)

(***************************************************************************)
(* draw: the part that changes the App                                     *)
(***************************************************************************)
\* row of the top border of both lists (the container block has a title)
ListTop == 1
\* rows the sort popup leaves for its list of sort types
SortPopupRows == 7

\* get_rect_bounds of the two list layouts
SpaceBounds == [left |-> 0, right |-> SpaceRight, top |-> ListTop]
PageBounds == [left |-> SpaceRight, right |-> PageRight, top |-> ListTop]

\* draw: render_stateful_widget re-clamps each list state it is given; the
\* page list is drawn only when it has pages or a search is active, the sort
\* list only in the sort popup
draw(a) ==
    LET spaces == [a EXCEPT
                     !.space_list_state = render_list(@, Len(a.space_list), ListHeight),
                     !.space_list_pos = SpaceBounds]
        pages == IF a.page_list # <<>> \/ a.search.search_active
                 THEN [spaces EXCEPT
                         !.page_list_state = render_list(@, Len(a.page_list), ListHeight),
                         !.page_list_pos = PageBounds]
                 ELSE spaces
    IN IF a.current_area = "SortPopup"
       THEN [pages EXCEPT !.sort.type_state =
                            render_list(@, Len(sort_types_array), SortPopupRows)]
       ELSE pages

(***************************************************************************)
(* The Input Translator                                                    *)
(***************************************************************************)
\* KeyCode: Char(c) with c the character's bytes, or a named key
Char(c) == [k |-> "Char", c |-> c]
Key(k) == [k |-> k, c |-> <<>>]

Ch_q == <<113>>
Ch_question == <<63>>
Ch_r == <<114>>
Ch_n == <<110>>
Ch_N == <<78>>
Ch_d == <<100>>
Ch_s == <<115>>
Ch_slash == <<47>>
Ch_p == <<112>>
Ch_o == <<111>>
Ch_t == <<116>>
Ch_y == <<121>>
Ch_Y == <<89>>

\* handle_key_event: the match on current_area
area_keys(key_event, current_area) ==
         CASE current_area = "Spaces" ->
                CASE key_event.k = "Up" -> Msg("ListPrevious")
                  [] key_event.k = "Down" -> Msg("ListNext")
                  [] key_event.k = "Left" -> Msg("Back")
                  [] key_event.k \in {"Right", "Enter"} -> Msg("Select")
                  [] key_event = Char(Ch_r) -> Msg("Refresh")
                  [] OTHER -> NoMsg
           [] current_area = "Pages" ->
                CASE key_event.k = "Up" -> Msg("ListPrevious")
                  [] key_event.k = "Down" -> Msg("ListNext")
                  [] key_event.k = "Left" -> Msg("Back")
                  [] key_event.k \in {"Right", "Enter"} -> Msg("Select")
                  [] key_event = Char(Ch_r) -> Msg("Refresh")
                  [] key_event = Char(Ch_n) -> Msg("NewPage")
                  [] key_event = Char(Ch_d) -> Msg("DeletePage")
                  [] key_event \in {Char(Ch_s), Char(Ch_slash)} -> Msg("StartSearch")
                  [] key_event = Char(Ch_p) -> Msg("TogglePreview")
                  [] key_event = Char(Ch_o) -> Msg("StartSort")
                  [] key_event = Char(Ch_t) -> Msg("UpdateTitle")
                  [] OTHER -> NoMsg
           [] current_area = "SavePopup" ->
                CASE key_event \in {Char(Ch_y), Char(Ch_Y)} -> Msg("ConfirmSave")
                  [] key_event \in {Char(Ch_n), Char(Ch_N)} -> Msg("RejectSave")
                  [] OTHER -> NoMsg
           [] current_area = "NewPagePopup" ->
                CASE key_event.k = "Enter" -> Msg("SaveNewPage")
                  [] key_event.k = "Esc" -> Msg("CancelNewPage")
                  [] key_event.k = "Backspace" -> Msg("Backspace")
                  [] key_event.k = "Left" -> Msg("CursorLeft")
                  [] key_event.k = "Right" -> Msg("CursorRight")
                  [] key_event.k = "Char" -> TypeChar(key_event.c)
                  [] OTHER -> NoMsg
           [] current_area = "DeletePopup" ->
                CASE key_event \in {Char(Ch_y), Char(Ch_Y)} -> Msg("ConfirmDeletePage")
                  [] key_event \in {Char(Ch_n), Char(Ch_N)} -> Msg("CancelDeletePage")
                  [] OTHER -> NoMsg
           [] current_area = "SearchPopup" ->
                CASE key_event.k = "Enter" -> Msg("ConfirmSearch")
                  [] key_event.k = "Esc" -> Msg("CancelSearch")
                  [] key_event.k = "Backspace" -> Msg("Backspace")
                  [] key_event.k = "Left" -> Msg("CursorLeft")
                  [] key_event.k = "Right" -> Msg("CursorRight")
                  [] key_event.k = "Char" -> TypeChar(key_event.c)
                  [] OTHER -> NoMsg
           [] current_area = "SortPopup" ->
                CASE key_event.k = "Enter" -> Msg("ConfirmSort")
                  [] key_event.k = "Esc" -> Msg("CancelSort")
                  [] key_event.k = "Up" -> Msg("ListPrevious")
                  [] key_event.k = "Down" -> Msg("ListNext")
                  [] key_event = Char(Ch_d) -> Msg("ToggleSortDir")
                  [] OTHER -> NoMsg
           [] current_area = "TitlePopup" ->
                CASE key_event.k = "Enter" -> Msg("ConfirmTitle")
                  [] key_event.k = "Esc" -> Msg("CancelTitle")
                  [] key_event.k = "Backspace" -> Msg("Backspace")
                  [] key_event.k = "Left" -> Msg("CursorLeft")
                  [] key_event.k = "Right" -> Msg("CursorRight")
                  [] key_event.k = "Char" -> TypeChar(key_event.c)
                  [] OTHER -> NoMsg

\* the match on current_area consulted before the keys of every area
handle_key_event_area_first(key_event, current_area) ==
    IF area_keys(key_event, current_area) # NoMsg THEN area_keys(key_event, current_area)
    ELSE IF key_event = Char(Ch_q) THEN Msg("Exit")
    ELSE IF key_event = Char(Ch_question) THEN Msg("ToggleHelp")
    ELSE NoMsg

\* handle_key_event: 'q' and '?' return before the match on current_area
handle_key_event(key_event, current_area) ==
    IF key_event = Char(Ch_q) THEN Msg("Exit")
    ELSE IF key_event = Char(Ch_question) THEN Msg("ToggleHelp")
    ELSE area_keys(key_event, current_area)

\* MouseEvent: its kind and position
Mouse(kind, column, row) == [kind |-> kind, column |-> column, row |-> row]

\* handle_mouse_event
handle_mouse_event(mouse_event, current_area) ==
    IF current_area \in {"Spaces", "Pages"}
    THEN CASE mouse_event.kind = "ScrollUp" -> Msg("ListPrevious")
           [] mouse_event.kind = "ScrollDown" -> Msg("ListNext")
           [] mouse_event.kind = "DownLeft" -> MouseSelect(mouse_event.column, mouse_event.row)
           [] OTHER -> NoMsg
    ELSE NoMsg

(***************************************************************************)
(* actions.rs: the commands that run without the TUI                       *)
(***************************************************************************)
IsDigit(byte) == byte \in 48..57

\* char::is_alphanumeric, for the ASCII characters the model reads
is_alphanumeric(byte) == IsDigit(byte) \/ byte \in 65..90 \/ byte \in 97..122

RECURSIVE DigitsValue(_)
DigitsValue(digits) ==
    IF digits = <<>> THEN 0
    ELSE 10 * DigitsValue(SubSeq(digits, 1, Len(digits) - 1)) + (digits[Len(digits)] - 48)

\* str::parse::<usize>: an optional '+', then one digit or more, the value
\* no larger than usize::MAX; nothing is trimmed
parse_usize(user_input) ==
    LET digits == IF user_input # <<>> /\ user_input[1] = 43 THEN Tail(user_input)
                  ELSE user_input
    IN IF /\ digits # <<>>
          /\ \A i \in 1..Len(digits) : IsDigit(digits[i])
          /\ DigitsValue(digits) <= UsizeMax
       THEN [ok |-> TRUE, value |-> DigitsValue(digits)]
       ELSE [ok |-> FALSE, value |-> 0]

\* user_choose_space: the match inside the loop; TRUE when the line breaks
\* the loop with the selection
accepts_selection(space_list, user_input) ==
    LET max_selection == Len(space_list) + 1
        parsed == parse_usize(user_input)
    IN parsed.ok /\ 0 < parsed.value /\ parsed.value <= max_selection

\* Vec::remove(index): the element, or a panic when index >= len
vec_remove(list, index) ==
    IF index < Len(list) THEN [res |-> "ok", value |-> list[index + 1]]
    ELSE [res |-> "panic", value |-> None]

\* get_history_id on the content of history.txt: Ok(Some(content)),
\* Ok(None) or Err; the arms of the match in their order
get_history_id(history_string) ==
    IF \A i \in 1..Len(history_string) : is_alphanumeric(history_string[i])
    THEN [res |-> "some", id |-> history_string]
    ELSE IF history_string = <<>> THEN [res |-> "none", id |-> <<>>]
    ELSE [res |-> "err", id |-> <<>>]

\* the command-line state while the TUI runs
CliIdle ==
    [cmd |-> "tui", at |-> "done", space_list |-> <<>>, lines |-> <<>>,
     selection |-> 0, chosen |-> None, history_string |-> <<>>,
     fetched |-> <<>>, error |-> ""]

(***************************************************************************)
(* The session: display() and the loop of run()                            *)
(***************************************************************************)
VARIABLES
    app,     \* the App
    store,   \* the document store: spaces, pages per space, next page id
    pc,      \* where run() is: "draw" (top of the loop), "read" (drawn,
             \* waiting in handle_events), "update" (a chained message is
             \* held); or how it ended: "done" (Ok), "error" (Err), "panic"
    msg,     \* the chained Option<Message> run() holds between two updates
    history, \* the content of history.txt: a page id, None when it is empty
    terminal,\* "held": raw mode and the alternate screen, a frame drawn;
             \* "cleared": held and fully cleared, nothing drawn since;
             \* "released": cooked mode and the main screen
    trail,   \* the variants of the messages applied last, as far as they
             \* spell the start of one of the Sequences; a finished Sequence
             \* is forgotten at the next draw
    cli      \* a command that runs without the TUI: cmd "space" is
             \* select_space and cmd "last" edit_last_page, at says where
             \* it is; space_list, the lines read from stdin, the selection
             \* that left the loop and the space returned; the bytes of
             \* history.txt as read, the ids given to get_page_by_id and
             \* the error bailed with.  CliIdle while the TUI runs.

vars == <<app, store, pc, msg, history, terminal, trail, cli>>

\* the message sequences the properties below speak about
Sequences ==
    { <<"Exit">>,
      <<"Refresh">>,
      <<"Backspace">>,
      <<"ListNext", "ListNext", "ListNext">>,
      <<"ListPrevious", "ListNext">>,
      <<"ListNext", "ListPrevious">>,
      <<"TypeChar", "Backspace">>,
      <<"StartSort", "ToggleSortDir", "CancelSort">>,
      <<"StartSort", "ToggleSortDir", "ConfirmSort">>,
      <<"ConfirmSearch", "StartSearch", "Backspace", "ConfirmSearch">>,
      <<"ConfirmSearch", "StartSearch", "Backspace", "CancelSearch">>,
      <<"OpenEditor", "ConfirmSave", "Save", "Refresh">>,
      <<"OpenEditor", "RejectSave">>,
      <<"DeletePage">>,
      <<"MouseSelect">>,
      <<"NewPage", "TypeChar", "CancelNewPage", "NewPage">>,
      <<"NewPage", "TypeChar", "SaveNewPage", "Refresh", "NewPage">>,
      <<"DeletePage", "ConfirmDeletePage", "Refresh">>,
      <<"DeletePage", "CancelDeletePage">>,
      <<"CursorLeft", "ConfirmSearch">>,
      <<"TypeChar", "CancelSearch">> }

IsPrefix(p) == \E q \in Sequences : Len(p) <= Len(q) /\ SubSeq(q, 1, Len(p)) = p

\* the longest tail of the applied messages that starts one of the Sequences
RECURSIVE Track(_)
Track(p) == IF p = <<>> \/ IsPrefix(p) THEN p ELSE Track(Tail(p))

\* a Sequence has been started and can still go on
InProgress(p) ==
    \E q \in Sequences : Len(p) < Len(q) /\ SubSeq(q, 1, Len(p)) = p

\* the variant of the message applied last, when it is part of a Sequence
Last == IF trail = <<>> THEN "None" ELSE trail[Len(trail)]

\* the characters typed into text popups
TextChars == {Ch_a, Ch_eacute}
\* the characters bound to commands
CommandChars == {Ch_q, Ch_question, Ch_r, Ch_n, Ch_N, Ch_d, Ch_s, Ch_slash,
                 Ch_p, Ch_o, Ch_t, Ch_y, Ch_Y}
NamedKeys == {"Up", "Down", "Left", "Right", "Enter", "Esc", "Backspace", "Tab"}

\* the keys pressed in a state: every named key; outside the text popups
\* every character; inside them 'q', '?' and the TextChars that still fit
PressedKeys ==
    {Key(k) : k \in NamedKeys}
    \cup (IF IsTextArea(app.current_area)
          THEN {Char(c) : c \in {Ch_q, Ch_question}
                              \cup {t \in TextChars : Len(CurrentText(app)) + Len(t) <= MaxLen}}
          ELSE {Char(c) : c \in CommandChars \cup TextChars})

MouseEvents ==
    {Mouse(kind, 0, 0) : kind \in {"ScrollUp", "ScrollDown", "Moved"}}
    \cup {Mouse("DownLeft", x, y) : x \in 0..PageRight,
                                      y \in ListTop..(ListTop + ListHeight + 1)}

\* a cursor over a list that is not drawn moves at most MaxStray rows away
\* from the first and from the last
WithinStray(m) ==
    /\ m.t = "ListNext" /\ IsListArea(app.current_area) /\ FocusedLength(app) = 0
         => \/ FocusedState(app).selected < MaxStray
            \/ FocusedState(app).selected >= UsizeMax - MaxStray
    /\ m.t = "ListPrevious" /\ IsListArea(app.current_area) /\ FocusedLength(app) = 0
         => \/ FocusedState(app).selected <= MaxStray
            \/ FocusedState(app).selected > UsizeMax - MaxStray

\* the session explored: the user browses, searches, sorts and types, opens
\* no page in the editor and confirms no change of the store
WithinBounds(m) ==
    /\ m.t \notin {"SaveNewPage", "ConfirmDeletePage", "ConfirmTitle"}
    /\ ~(m.t = "Select" /\ app.current_area = "Pages" /\ HasSelectedPage(app))
    /\ WithinStray(m)

InitStore(spaces) ==
    [spaces |-> spaces,
     pages |-> [sp \in {spaces[i] : i \in 1..Len(spaces)} |-> InSpace(InitPages, sp)],
     next_id |-> Len(InitPages) + 1]

\* display(): the space list is loaded, App::new, run()
Init ==
    /\ \E spaces \in {<<>>, StoreSpaces} :
          /\ store = InitStore(spaces)
          /\ app = AppNew(spaces)
    /\ pc = "draw"
    /\ msg = NoMsg
    /\ history = None
    /\ terminal = "held"
    /\ trail = <<>>
    /\ cli = CliIdle

\* terminal.draw(|frame| draw(frame, app))
Draw ==
    /\ pc = "draw"
    /\ app' = draw(app)
    /\ pc' = "read"
    /\ terminal' = IF terminal = "released" THEN terminal ELSE "held"
    /\ trail' = IF InProgress(trail) THEN trail ELSE <<>>
    /\ UNCHANGED <<store, msg, history, cli>>

World == [app |-> app, store |-> store, history |-> history,
          terminal |-> terminal, upload |-> <<>>, next |-> NoMsg, res |-> "ok"]

\* the store calls that can fail, and the subtractions that can wrap
StoreCalls == {"Select", "OpenEditor", "Save", "Refresh", "SaveNewPage",
               "ConfirmDeletePage", "ConfirmSearch", "ConfirmTitle"}
Subtractions == {"ListNext", "MouseSelect"}

\* the chained message dropped: back to the top of the loop at once
Continue_drops_chain(m, exit) == IF exit THEN "done" ELSE "draw"

\* what run() does with the Option<Message> it holds
Continue(m, exit) ==
    IF m # NoMsg THEN "update" ELSE IF exit THEN "done" ELSE "draw"

\* message = update(app, config, message.unwrap(), terminal)?
\* a failed store call returns the error out of run(); a panic unwinds
Update(m) ==
    /\ \E ok \in (IF m.t \in StoreCalls THEN BOOLEAN ELSE {TRUE}),
          wrap \in (IF m.t \in Subtractions THEN BOOLEAN ELSE {TRUE}) :
          LET r == update(World, m, ok, wrap)
          IN /\ app' = r.app
             /\ store' = r.store
             /\ history' = r.history
             /\ terminal' = r.terminal
             /\ msg' = IF r.res = "ok" THEN r.next ELSE NoMsg
             /\ pc' = CASE r.res = "err" -> "error"
                        [] r.res = "panic" -> "panic"
                        [] OTHER -> Continue(r.next, r.app.exit)
    /\ trail' = Track(Append(trail, m.t))
    /\ UNCHANGED cli

\* let mut message = handle_events(app)?, then the first update if the
\* event gave a message
Handle(m) ==
    IF m = NoMsg
    THEN pc' = "draw" /\ UNCHANGED <<app, store, msg, history, terminal, trail, cli>>
    ELSE WithinBounds(m) /\ Update(m)

\* handle_events reads a key press
KeyEvent ==
    /\ pc = "read"
    /\ \E key_event \in PressedKeys : Handle(handle_key_event(key_event, app.current_area))

\* handle_events reads a mouse event
MouseEvent ==
    /\ pc = "read"
    /\ \E mouse_event \in MouseEvents :
          Handle(handle_mouse_event(mouse_event, app.current_area))

\* while message.is_some(): the update of a chained message
Chained ==
    /\ pc = "update"
    /\ Update(msg)

Next ==
    \/ Draw
    \/ KeyEvent
    \/ MouseEvent
    \/ Chained

Spec == Init /\ [][Next]_vars

(***************************************************************************)
(* The editing session: the user browses spaces and pages, opens pages in  *)
(* the editor and answers the save popup.  The editor call is taken in two *)
(* steps, so that the time the editor runs is a state of its own.          *)
(***************************************************************************)
\* a page id left in history.txt by an earlier run
EarlierEdit == 3

EditKeys == {Key(k) : k \in {"Up", "Down", "Left", "Enter"}}
            \cup {Char(c) : c \in {Ch_r, Ch_y, Ch_n, Ch_q}}

EditMessages == {"ListNext", "ListPrevious", "Back", "Select", "Refresh",
                 "ConfirmSave", "RejectSave", "Exit"}

\* display(): ratatui::init(), the space list is loaded, App::new, run()
EditInit ==
    /\ store = InitStore(StoreSpaces)
    /\ app = AppNew(StoreSpaces)
    /\ pc = "draw"
    /\ msg = NoMsg
    /\ history \in {None, EarlierEdit}
    /\ terminal = "held"
    /\ trail = <<>>
    /\ cli = CliIdle

\* handle_events reads a key press that gives a message of the session
EditKeyEvent ==
    /\ pc = "read"
    /\ \E key_event \in EditKeys :
          LET m == handle_key_event(key_event, app.current_area)
          IN m.t \in EditMessages /\ WithinStray(m) /\ Update(m)

\* the chained message is OpenEditor and a page is selected
EditorCalled == pc = "update" /\ msg.t = "OpenEditor" /\ HasSelectedPage(app)

\* while message.is_some(): the update of a chained message other than the
\* editor call
EditChained ==
    /\ pc = "update"
    /\ ~EditorCalled
    /\ Update(msg)

\* Message::OpenEditor up to the spawn of the editor: the page's save state
\* is cleared, run_editor leaves the terminal, save_and_edit_page writes the
\* file and spawns the editor (or fails)
EditorSpawn ==
    /\ EditorCalled
    /\ \E ok \in BOOLEAN :
          LET page == get_selected_page(app)
              left == leave_terminal(World)
          IN /\ app' = clear_page_saved_state(app, page.id)
             /\ terminal' = left.terminal
             /\ pc' = IF ok THEN "editor" ELSE "error"
             /\ msg' = IF ok THEN msg ELSE NoMsg
    /\ trail' = Track(Append(trail, msg.t))
    /\ UNCHANGED <<store, history, cli>>

\* Message::OpenEditor from the exit of the editor: update_edited_history,
\* run_editor enters the terminal again, the arm sets the path and the area
EditorExit ==
    /\ pc = "editor"
    /\ \E wrote \in BOOLEAN, entered \in BOOLEAN :
          LET page == get_selected_page(app)
              edited == edit_page(World, page, wrote)
              r == IF edited.res = "err" THEN edited
                   ELSE enter_terminal(edited, entered)
          IN /\ history' = r.history
             /\ terminal' = r.terminal
             /\ app' = IF r.res = "ok" THEN editor_closed(app, page) ELSE app
             /\ pc' = IF r.res = "ok" THEN "draw" ELSE "error"
    /\ msg' = NoMsg
    /\ UNCHANGED <<store, trail, cli>>

EditNext ==
    \/ Draw
    \/ EditKeyEvent
    \/ EditChained
    \/ EditorSpawn
    \/ EditorExit

SpecEdit == EditInit /\ [][EditNext]_vars

(***************************************************************************)
(* The managing session: the user browses spaces and pages, creates,       *)
(* deletes and renames pages and sorts the page list.                      *)
(***************************************************************************)
\* the pages created in a session
MaxNew == 1

ManageKeys == {Key(k) : k \in {"Down", "Left", "Enter", "Esc", "Backspace"}}
              \cup {Char(c) : c \in {Ch_a, Ch_n, Ch_d, Ch_y, Ch_t, Ch_o}}

ManageMessages ==
    {"ListNext", "Back", "Select", "NewPage", "TypeChar", "Backspace",
     "SaveNewPage", "CancelNewPage", "DeletePage", "ConfirmDeletePage",
     "CancelDeletePage", "UpdateTitle", "ConfirmTitle", "CancelTitle",
     "StartSort", "ToggleSortDir", "ConfirmSort", "CancelSort"}

\* the titles of the pages of the store
Titles(st) ==
    UNION {{st.pages[sp][i].title : i \in 1..Len(st.pages[sp])} : sp \in DOMAIN st.pages}

\* the store of the session: the first space and its pages
ManageSpaces == <<StoreSpaces[1]>>

\* the session explored: no page is opened in the editor, 'a' is the one
\* character typed and is typed into the empty title of a new page, a title
\* is edited by Backspace, at most MaxNew pages are created and the space
\* never holds more pages than the store started with, a page is renamed
\* while the others have the titles they started with, and the sort popup
\* is opened on a list of more than two pages
ManageBounds(m) ==
    /\ m.t \in ManageMessages
    /\ WithinStray(m)
    /\ m.t = "Select" => app.current_area = "Spaces"
    /\ m.t = "TypeChar" => /\ m.c = Ch_a
                            /\ app.current_area = "NewPagePopup"
                            /\ CurrentText(app) = <<>>
    /\ m.t = "Backspace" => app.current_area = "TitlePopup"
    /\ m.t = "SaveNewPage" => /\ store.next_id <= Len(InitPages) + MaxNew
                               /\ Len(store.pages[ManageSpaces[1]]) < Len(InitPages)
    /\ m.t = "ConfirmTitle" => Titles(store) \subseteq Titles(InitStore(ManageSpaces))
    /\ m.t = "StartSort" => Len(app.page_list) > 2

\* display(): ratatui::init(), the space list is loaded, App::new, run()
ManageInit ==
    /\ store = InitStore(ManageSpaces)
    /\ app = AppNew(ManageSpaces)
    /\ pc = "draw"
    /\ msg = NoMsg
    /\ history = None
    /\ terminal = "held"
    /\ trail = <<>>
    /\ cli = CliIdle

\* handle_events reads a key press that gives a message of the session
ManageKeyEvent ==
    /\ pc = "read"
    /\ \E key_event \in ManageKeys :
          LET m == handle_key_event(key_event, app.current_area)
          IN ManageBounds(m) /\ Update(m)

ManageNext ==
    \/ Draw
    \/ ManageKeyEvent
    \/ Chained

SpecManage == ManageInit /\ [][ManageNext]_vars

(***************************************************************************)
(* The command-line runs: select_space, which lists the spaces and asks   *)
(* for the number of one, and edit_last_page, which reads history.txt and  *)
(* opens the page it names.                                                *)
(***************************************************************************)
\* the lines read from stdin in a run
MaxLines == 2

\* the lines the user enters: nothing, "0" to "5", "a", "+1"
Lines == {<<>>, <<97>>, <<43, 49>>} \cup {<<d>> : d \in 48..53}

\* the space lists the store gives
SpaceLists == {SubSeq(StoreSpaces, 1, n) : n \in 0..Len(StoreSpaces)}

\* what history.txt holds: up to MaxLen of the bytes '3', 'a' and '-'
HistoryStrings ==
    UNION {[1..n -> {51, 97, 45}] : n \in 0..MaxLen}

\* main(): the command is chosen; no App, no raw mode
CliInit ==
    /\ app = AppNew(<<>>)
    /\ pc = "cli"
    /\ msg = NoMsg
    /\ history = None
    /\ terminal = "released"
    /\ trail = <<>>
    /\ \/ /\ \E spaces \in SpaceLists : store = InitStore(spaces)
          /\ cli = [CliIdle EXCEPT !.cmd = "space", !.at = "start"]
       \/ /\ store = InitStore(StoreSpaces)
          /\ \E content \in HistoryStrings :
                cli = [CliIdle EXCEPT !.cmd = "last", !.at = "start",
                                      !.history_string = content]

\* select_space: load_space_list(api)?, then user_choose_space
LoadSpaces ==
    /\ cli.cmd = "space" /\ cli.at = "start"
    /\ \E ok \in BOOLEAN :
          cli' = IF ok THEN [cli EXCEPT !.space_list = store.spaces, !.at = "prompt"]
                 ELSE [cli EXCEPT !.at = "error", !.error = "load"]
    /\ UNCHANGED <<app, store, pc, msg, history, terminal, trail>>

\* user_choose_space: one turn of the loop, get_user_input and the match
ReadLine ==
    /\ cli.at = "prompt"
    /\ Len(cli.lines) < MaxLines
    /\ \E user_input \in Lines :
          cli' = IF accepts_selection(cli.space_list, user_input)
                 THEN [cli EXCEPT !.lines = Append(@, user_input),
                                  !.selection = parse_usize(user_input).value,
                                  !.at = "chosen"]
                 ELSE [cli EXCEPT !.lines = Append(@, user_input)]
    /\ UNCHANGED <<app, store, pc, msg, history, terminal, trail>>

\* user_choose_space: Ok(space_list.remove(selection - 1))
RemoveSpace ==
    /\ cli.at = "chosen"
    /\ LET removed == vec_remove(cli.space_list, cli.selection - 1)
       IN cli' = [cli EXCEPT !.chosen = removed.value,
                             !.at = IF removed.res = "ok" THEN "done" ELSE "panic"]
    /\ UNCHANGED <<app, store, pc, msg, history, terminal, trail>>

\* edit_last_page: the match on get_history_id(config)?
ReadHistory ==
    /\ cli.cmd = "last" /\ cli.at = "start"
    /\ LET history_id == get_history_id(cli.history_string)
       IN cli' = CASE history_id.res = "some" -> [cli EXCEPT !.at = "edit_id"]
                   [] history_id.res = "none" ->
                        [cli EXCEPT !.at = "error", !.error = "no history record"]
                   [] OTHER ->
                        [cli EXCEPT !.at = "error", !.error = "invalid history string"]
    /\ UNCHANGED <<app, store, pc, msg, history, terminal, trail>>

\* edit_id: Page::get_page_by_id(&config.api, id)? asks the store for the
\* page; the store has it when the id is the number of one of its pages
FetchPage ==
    /\ cli.at = "edit_id"
    /\ LET id == get_history_id(cli.history_string).id
           found == /\ id # <<>>
                    /\ \A i \in 1..Len(id) : IsDigit(id[i])
                    /\ \E sp \in DOMAIN store.pages : \E i \in 1..Len(store.pages[sp]) :
                          store.pages[sp][i].id = DigitsValue(id)
       IN cli' = IF found THEN [cli EXCEPT !.fetched = Append(@, id), !.at = "editing"]
                 ELSE [cli EXCEPT !.fetched = Append(@, id), !.at = "error",
                                  !.error = "fetch"]
    /\ UNCHANGED <<app, store, pc, msg, history, terminal, trail>>

CliNext ==
    \/ LoadSpaces
    \/ ReadLine
    \/ RemoveSpace
    \/ ReadHistory
    \/ FetchPage

SpecCli == CliInit /\ [][CliNext]_vars

(***************************************************************************)
(* Properties                                                              *)
(***************************************************************************)
\* the variants of CurrentArea
Areas == {"Spaces", "Pages", "SavePopup", "NewPagePopup", "DeletePopup",
          "SearchPopup", "SortPopup", "TitlePopup"}

\* the text buffers of the three text popups
TextBuffers(a) == {a.new_page_title, a.search.current_search, a.page_updated_title}

HasByte(s, byte) == \E i \in 1..Len(s) : s[i] = byte

\* C1: in every area the key 'q' is translated to Exit, never to
\* TypeChar('q'), and so no text buffer of a session ever holds a 'q'.
C1_QuitInEveryArea ==
    /\ \A area \in Areas : handle_key_event(Char(Ch_q), area) = Msg("Exit")
    /\ \A text \in TextBuffers(app) : ~HasByte(text, Ch_q[1])

\* 'q' pressed in a text popup has ended the session
C1_Witness ==
    /\ pc = "done"
    /\ Last = "Exit"
    /\ app.exit
    /\ IsTextArea(app.current_area)
    /\ CurrentText(app) # <<>>

\* the selected index of the focused list
Sel(a) == FocusedState(a).selected

\* ListNext, ListPrevious and the draw that follows each in run()
AfterNext(a) == draw(list_next(a, TRUE).app)
AfterPrevious(a) == draw(list_previous(a))

RECURSIVE NextTimes(_, _)
NextTimes(a, k) == IF k = 0 THEN a ELSE NextTimes(AfterNext(a), k - 1)

\* a drawn state that waits for an event, with a non-empty list focused
OnList == pc = "read" /\ IsListArea(app.current_area) /\ FocusedLength(app) > 0

\* C2: on a non-empty focused list of length n with index i < n selected,
\* n ListNext messages bring the selection back to i.
C2_WraparoundClosure ==
    OnList /\ Sel(app) # None =>
        /\ Sel(app) < FocusedLength(app)
        /\ Sel(NextTimes(app, FocusedLength(app))) = Sel(app)

\* three ListNext on the three spaces: the third wrapped from the last
\* space, which the first two had reached from space 0
C2_Witness ==
    /\ pc = "draw"
    /\ trail = <<"ListNext", "ListNext", "ListNext">>
    /\ app.current_area = "Spaces"
    /\ Len(app.space_list) = 3
    /\ app.space_list_state = [selected |-> 0, offset |-> 3 - ListHeight]
    /\ Sel(draw(app)) = 0

\* C3: on a non-empty focused list of length n, as drawn: ListPrevious then
\* ListNext, and ListNext then ListPrevious, return to the selected index;
\* ListPrevious at index 0 selects n-1; ListNext at n-1 selects 0; with
\* nothing selected ListNext selects 0 and ListPrevious selects n-1.
C3_PreviousNextInverse ==
    OnList =>
        LET n == FocusedLength(app)
            i == Sel(app)
        IN /\ i # None => /\ Sel(AfterNext(AfterPrevious(app))) = i
                          /\ Sel(AfterPrevious(AfterNext(app))) = i
           /\ i = 0 => Sel(AfterPrevious(app)) = n - 1
           /\ i = n - 1 => Sel(AfterNext(app)) = 0
           /\ i = None => /\ Sel(AfterNext(app)) = 0
                          /\ Sel(AfterPrevious(app)) = n - 1

\* ListPrevious then ListNext on the two pages of a space: ListPrevious
\* went to the last page and ListNext wrapped back to page 0
C3_Witness ==
    /\ pc = "draw"
    /\ trail = <<"ListPrevious", "ListNext">>
    /\ app.current_area = "Pages"
    /\ Len(app.page_list) = 2
    /\ app.page_list_state = [selected |-> 0, offset |-> ListHeight]
    /\ Sel(AfterPrevious(draw(app))) = 1

\* C4: on an empty focused list ListNext and ListPrevious are no-ops: once
\* drawn again the cursor is still 'none selected', and neither panics.
C4_EmptyListNoOp ==
    /\ Last \in {"ListNext", "ListPrevious"}
    /\ pc \in {"read", "panic"}
    /\ IsListArea(app.current_area)
    /\ FocusedLength(app) = 0
    => pc = "read" /\ Sel(app) = None

\* a list cursor is 'none selected' or an index of its list
InRange(ls, list) == ls.selected = None \/ ls.selected < Len(list)

\* C5: in every drawn state each list cursor is 'none selected' or an index
\* below the length of its list, and the update of ConfirmSearch or Refresh
\* leaves the cursor of the list it replaced at 'none selected'.
C5_CursorWithinList ==
    /\ pc = "read" => /\ InRange(app.space_list_state, app.space_list)
                      /\ InRange(app.page_list_state, app.page_list)
    /\ pc = "draw" /\ Last \in {"ConfirmSearch", "Refresh"} => Sel(app) = None

\* the offset of the text cursor is within the buffer of the open popup
ValidOffset(a) ==
    a.cursor_negative_offset >= 0 /\ a.cursor_negative_offset <= Len(CurrentText(a))

\* C6: in a text popup with a valid cursor offset, TypeChar(c) followed by
\* Backspace restores the buffer and the cursor offset, for every character.
C6_TypeBackspaceRoundTrip ==
    pc = "read" /\ IsTextArea(app.current_area) /\ ValidOffset(app) =>
        \A c \in TextChars :
            LET typed == type_char(app, c)
                erased == backspace_text(draw(typed.app))
            IN /\ typed.res = "ok"
               /\ erased.res = "ok"
               /\ CurrentText(erased.app) = CurrentText(app)
               /\ erased.app.cursor_negative_offset = app.cursor_negative_offset

\* C7: in every state of a text popup the cursor offset is between 0 and
\* the length of the popup's buffer.
C7_OffsetWithinBuffer ==
    IsTextArea(app.current_area) => ValidOffset(app)

\* one message applied to an App and the draw that follows, the store call
\* succeeding
Step(a, t) ==
    draw(update([World EXCEPT !.app = a], Msg(t), TRUE, TRUE).app)

RECURSIVE Steps(_, _)
Steps(a, seq) == IF seq = <<>> THEN a ELSE Steps(Step(a, Head(seq)), Tail(seq))

\* a drawn state of the page list that waits for an event
BrowsingPages == pc = "read" /\ app.current_area = "Pages"

\* C8: from every state browsing pages, StartSort, ToggleSortDir, CancelSort
\* leave the selected sort key, the direction and the page list as they were.
C8_CancelSortRestores ==
    BrowsingPages =>
        LET after == Steps(app, <<"StartSort", "ToggleSortDir", "CancelSort">>)
        IN /\ after.sort.type_state.selected = app.sort.type_state.selected
           /\ after.sort.dir_state = app.sort.dir_state
           /\ after.page_list = app.page_list

\* C9: from every state browsing pages, StartSort, ToggleSortDir, ConfirmSort
\* flip the direction and leave the page list ordered by the selected sort
\* key in the new direction.
C9_ConfirmSortReorders ==
    BrowsingPages =>
        LET after == Steps(app, <<"StartSort", "ToggleSortDir", "ConfirmSort">>)
        IN /\ after.sort.dir_state # app.sort.dir_state
           /\ HasSelectedSort(after)
           /\ after.page_list = SortStable(after.page_list,
                                           get_selected_sort(after)[1],
                                           get_selected_sort(after)[2])

\* the pages of a list, and those of them a query keeps
PageSet(pages) == {pages[i] : i \in 1..Len(pages)}
Matching(pages, query) ==
    {p \in PageSet(pages) : contains(to_lowercase(p.title), to_lowercase(query))}

\* C10: after every ConfirmSearch, a first one or one that follows an earlier
\* search, the page list holds exactly the pages of the selected space whose
\* title contains the query, compared in lower case.
C10_SearchNeverCompounds ==
    pc = "draw" /\ Last = "ConfirmSearch" =>
        /\ app.search.search_active
        /\ get_selected_space(app) # None
        /\ PageSet(app.page_list) =
               Matching(get_pages(store, get_selected_space(app)), app.search.current_search)

\* a search that kept no page, the query shortened by Backspace, and the
\* second ConfirmSearch lists the page the shorter query matches
C10_Witness ==
    /\ pc = "draw"
    /\ trail = <<"ConfirmSearch", "StartSearch", "Backspace", "ConfirmSearch">>
    /\ app.search.current_search = Ch_a
    /\ Len(app.page_list) = 1
    /\ app.page_list[1].title = Ch_A

\* the second ListNext on a space without pages, in a build with overflow
\* checks: the first left index 0 selected, the second panics
C4_Witness ==
    /\ pc = "panic"
    /\ Last = "ListNext"
    /\ app.current_area = "Pages"
    /\ app.page_list = <<>>
    /\ app.page_list_state.selected = 0

\* a search has shrunk the page list and the cursor kept its index: it is
\* drawn on another page than before
C5_Witness ==
    /\ pc = "read"
    /\ trail = <<"ConfirmSearch">>
    /\ Len(app.page_list) = 1
    /\ app.page_list[1].title = Ch_A
    /\ app.page_list_state.selected = 0
    /\ SortStable(get_pages(store, get_selected_space(app)), "CreatedOn", "Asc")[1].title = Ch_b

\* Backspace right after typing a two-byte character has panicked
C6_Witness ==
    /\ pc = "panic"
    /\ trail = <<"TypeChar", "Backspace">>
    /\ CurrentText(app) = Ch_eacute
    /\ app.cursor_negative_offset = 0

\* Backspace has removed a two-byte character from under a cursor one byte
\* to its left
C7_Witness ==
    /\ pc = "draw"
    /\ Last = "Backspace"
    /\ IsTextArea(app.current_area)
    /\ CurrentText(app) = <<>>
    /\ app.cursor_negative_offset = 1

\* CancelSort in a session that has confirmed no sort: no sort type is
\* selected any more
C8_Witness ==
    /\ pc = "draw"
    /\ trail = <<"StartSort", "ToggleSortDir", "CancelSort">>
    /\ app.sort.type_state.selected = None
    /\ app.sort.dir_state = "Asc"

\* ConfirmSort with no sort type selected: the direction is Desc and the
\* pages are still in ascending order of creation
C9_Witness ==
    /\ pc = "draw"
    /\ trail = <<"StartSort", "ToggleSortDir", "ConfirmSort">>
    /\ ~HasSelectedSort(app)
    /\ app.sort.dir_state = "Desc"
    /\ Len(app.page_list) = 2
    /\ app.page_list = SortStable(app.page_list, "CreatedOn", "Asc")

\* C12: browsing pages with no page selected, DeletePage changes nothing: the
\* area stays Pages, the delete popup is not entered, and no store call is
\* made (the store is the same whether a call would succeed or fail, no
\* error is returned and no message is chained)
C12_DeleteWithoutPageNoOp ==
    BrowsingPages /\ ~HasSelectedPage(app)
        => \A ok \in BOOLEAN : update(World, Msg("DeletePage"), ok, TRUE) = World

\* DeletePage was applied to a page list with no selected page
C12_Witness ==
    /\ trail = <<"DeletePage">>
    /\ pc = "draw"
    /\ app.current_area = "Pages"
    /\ ~HasSelectedPage(app)

\* the messages applied one after the other, the draw of run() after each,
\* up to the first that does not return Ok
RECURSIVE Run(_, _)
Run(w, msgs) ==
    IF msgs = <<>> \/ w.res # "ok" THEN w
    ELSE LET r == update(w, Head(msgs), TRUE, TRUE)
         IN Run([r EXCEPT !.app = draw(r.app)], Tail(msgs))

\* what the user types into the title popup: the runs of TextChars that fit
Typed ==
    {<<>>} \cup {<<c>> : c \in TextChars}
           \cup {<<c, d>> : c \in {t \in TextChars : 2 * Len(t) <= MaxLen},
                            d \in {t \in TextChars : 2 * Len(t) <= MaxLen}}

TypeAll(cs) == [i \in 1..Len(cs) |-> TypeChar(cs[i])]

\* C13: NewPage, any characters typed, CancelNewPage and NewPage again give
\* the title popup with an empty title and the cursor at offset 0
C13_CancelNewPageClears ==
    BrowsingPages
        => \A cs \in Typed :
              LET r == Run(World, <<Msg("NewPage")>> \o TypeAll(cs)
                                   \o <<Msg("CancelNewPage"), Msg("NewPage")>>)
              IN r.res = "ok"
                   => /\ r.app.current_area = "NewPagePopup"
                      /\ r.app.new_page_title = <<>>
                      /\ r.app.cursor_negative_offset = 0

\* the popup was opened, typed into, cancelled and opened again
C13_Witness ==
    /\ trail = <<"NewPage", "TypeChar", "CancelNewPage", "NewPage">>
    /\ pc = "draw"
    /\ app.current_area = "NewPagePopup"
    /\ app.new_page_title = <<>>
    /\ app.cursor_negative_offset = 0

\* the bounds draw stored for the focused list
FocusedPos(a) == IF a.current_area = "Spaces" THEN a.space_list_pos ELSE a.page_list_pos

\* the state of the list that is not focused
OtherState(a) ==
    IF a.current_area = "Spaces" THEN a.page_list_state ELSE a.space_list_state

\* the rows the focused list shows: its items from the scroll offset on, as
\* many as fit its box
ListedRows(a) ==
    LET rest == FocusedLength(a) - FocusedState(a).offset
    IN IF rest < 0 THEN 0 ELSE Min(rest, ListHeight)

\* the click misses the box of the focused list or the rows listed in it
OutsideBox(a, x, y) ==
    \/ x <= FocusedPos(a).left
    \/ x >= FocusedPos(a).right
    \/ y <= FocusedPos(a).top
    \/ y > FocusedPos(a).top + ListedRows(a)

\* C14: browsing spaces or pages, a click outside the box of the focused list
\* (left of it, right of it, on or above its top border, or below its last
\* listed row) clears the cursor of that list and changes neither the area
\* nor the state of the other list
C14_ClickOutsideClears ==
    pc = "read" /\ app.current_area \in {"Spaces", "Pages"}
        => \A x \in 0..PageRight, y \in 0..(ListTop + ListHeight + 1), wrap \in BOOLEAN :
              OutsideBox(app, x, y)
                  => LET r == update(World, MouseSelect(x, y), TRUE, wrap)
                     IN /\ r.res = "ok"
                        /\ FocusedState(r.app).selected = None
                        /\ r.app.current_area = app.current_area
                        /\ OtherState(r.app) = OtherState(app)

\* a click has put the cursor on a page below the rows the list showed
C14_Witness ==
    /\ trail = <<"MouseSelect">>
    /\ pc = "draw"
    /\ app.current_area = "Pages"
    /\ HasSelectedPage(app)
    /\ app.page_list_state.selected >= app.page_list_state.offset + ListHeight

\* the App shows no page: the page list is empty and has no cursor
NoPages(a) == a.page_list = <<>> /\ a.page_list_state.selected = None

\* C16: whenever the area is Spaces the page list is empty and the page
\* cursor is none: pages are loaded only by a step that leaves Spaces for
\* Pages, and Back from Pages clears the list and the cursor
C16_NoPagesWhileBrowsingSpaces ==
    /\ app.current_area = "Spaces" => NoPages(app)
    /\ BrowsingPages
         => LET r == update(World, Msg("Back"), TRUE, TRUE)
            IN r.res = "ok" /\ r.app.current_area = "Spaces" /\ NoPages(r.app)

\* back at the spaces after a page list was drawn
C16_Witness ==
    /\ app.current_area = "Spaces"
    /\ pc = "read"
    /\ app.page_list_pos = PageBounds
    /\ NoPages(app)

\* C17: a step in which a store call fails returns the error out of the
\* loop with no chained message, and leaves the store and every field of
\* the App other than the area as they were before the step
C17_FailedStoreCallChangesNothing ==
    [][pc' = "error"
         => /\ msg' = NoMsg
            /\ store' = store
            /\ [app' EXCEPT !.current_area = app.current_area] = app]_vars

\* a Refresh has failed: the search is reset, the page list is still the
\* filtered one
C17_Witness ==
    /\ pc = "error"
    /\ trail = <<"Refresh">>
    /\ app.current_area = "Pages"
    /\ ~app.search.search_active
    /\ get_selected_space(app) # None
    /\ Len(app.page_list) < Len(store.pages[get_selected_space(app)])

\* what the user does to the query in the search popup
QueryEdits == {<<>>, <<Msg("Backspace")>>, <<TypeChar(Ch_a)>>,
               <<Msg("Backspace"), TypeChar(Ch_b)>>}

\* the search popup opened, the query edited, the popup cancelled
Cancelled(edits) == Run(World, <<Msg("StartSearch")>> \o edits \o <<Msg("CancelSearch")>>)

\* C23: CancelSearch returns to the page list and leaves it as it is; with
\* no search active the query becomes empty; with a search active the query
\* is afterwards the one that search was confirmed with, whatever was typed
\* or deleted in the popup
C23_CancelSearchKeepsActiveQuery ==
    /\ BrowsingPages /\ ~app.search.search_active
         => \A edits \in QueryEdits :
               Cancelled(edits).res = "ok"
                   => /\ Cancelled(edits).app.current_area = "Pages"
                      /\ Cancelled(edits).app.page_list = app.page_list
                      /\ Cancelled(edits).app.search.current_search = <<>>
    /\ BrowsingPages /\ trail = <<"ConfirmSearch">>
         => \A edits \in QueryEdits :
               Cancelled(edits).res = "ok"
                   => /\ Cancelled(edits).app.current_area = "Pages"
                      /\ Cancelled(edits).app.page_list = app.page_list
                      /\ Cancelled(edits).app.search.search_active
                      /\ Cancelled(edits).app.search.current_search
                            = app.search.current_search

\* a search was confirmed, its query deleted in the popup and the popup
\* cancelled: the list is still filtered, the query is empty
C23_Witness ==
    /\ trail = <<"ConfirmSearch", "StartSearch", "Backspace", "CancelSearch">>
    /\ app.current_area = "Pages"
    /\ app.search.search_active
    /\ app.search.current_search = <<>>
    /\ get_selected_space(app) # None
    /\ Len(app.page_list) < Len(store.pages[get_selected_space(app)])

\* the messages whose arms expect a selected page
NeedsPage == {"ConfirmSave", "Save", "ConfirmDeletePage", "UpdateTitle", "ConfirmTitle"}

\* C30: whatever keys and mouse events the user sends, a message whose arm
\* expects a selected page is processed only with a page selected, be it
\* the message of an event or a chained one, so no arm panics for want of
\* a page
C30_PageSelectedWhenExpected ==
    /\ pc = "read"
         => /\ \A key_event \in PressedKeys :
                  handle_key_event(key_event, app.current_area).t \in NeedsPage
                      => HasSelectedPage(app)
            /\ \A mouse_event \in MouseEvents :
                  handle_mouse_event(mouse_event, app.current_area).t \in NeedsPage
                      => HasSelectedPage(app)
    /\ pc = "update" /\ msg.t \in NeedsPage => HasSelectedPage(app)

\* UpdateTitle was processed with no page selected: the arm has panicked
C30_Witness ==
    /\ pc = "panic"
    /\ app.current_area = "TitlePopup"
    /\ ~HasSelectedPage(app)

(***************************************************************************)
(* The editing session                                                     *)
(***************************************************************************)
\* the message applied by the step is the last of the run p of messages
Applies(p) == trail' = p /\ trail = SubSeq(p, 1, Len(p) - 1)

\* the step returns Ok
StepOk == pc' \notin {"error", "panic"}

\* Select in a state that waits for an event, every store call succeeding
Selected == update(World, Msg("Select"), TRUE, TRUE)

EditRun == <<"OpenEditor", "ConfirmSave", "Save", "Refresh">>

\* C11: with every store call succeeding, Select on a selected space loads
\* its pages and shows the page list; Select on a selected page chains
\* OpenEditor, which runs the editor and ends in the save popup; ConfirmSave
\* marks the page Saved and chains Save, Save chains Refresh, no event is
\* read in between, and the run ends browsing pages with the page still
\* marked Saved
C11_EditConfirmSave ==
    /\ [](pc = "read" /\ app.current_area = "Spaces" /\ get_selected_space(app) # None
            => /\ Selected.app.current_area = "Pages"
               /\ PageSet(Selected.app.page_list)
                    = PageSet(store.pages[get_selected_space(app)])
               /\ Selected.next = NoMsg)
    /\ [](pc = "read" /\ app.current_area = "Pages" /\ HasSelectedPage(app)
            => Selected.next = Msg("OpenEditor") /\ Selected.app = app)
    /\ [][/\ EditorCalled /\ StepOk => pc' = "editor"
          /\ pc = "editor" /\ StepOk
               => pc' = "draw" /\ app'.current_area = "SavePopup"
          /\ Applies(SubSeq(EditRun, 1, 2)) /\ StepOk
               => /\ pc' = "update" /\ msg' = Msg("Save")
                  /\ get_selected_page(app).id \in DOMAIN app'.page_states_map
                  /\ app'.page_states_map[get_selected_page(app).id] = "Saved"
          /\ Applies(SubSeq(EditRun, 1, 3)) /\ StepOk
               => /\ pc' = "update" /\ msg' = Msg("Refresh")
                  /\ app'.page_states_map = app.page_states_map
          /\ Applies(EditRun) /\ StepOk
               => /\ pc' = "draw" /\ msg' = NoMsg
                  /\ app'.current_area = "Pages"
                  /\ app'.page_states_map = app.page_states_map
                  /\ store' = store
         ]_vars

\* a page was edited, the save confirmed, uploaded and the list refreshed
C11_Witness ==
    /\ trail = EditRun
    /\ pc = "draw"
    /\ app.current_area = "Pages"
    /\ HasSelectedPage(app)
    /\ get_selected_page(app).id \in DOMAIN app.page_states_map
    /\ app.page_states_map[get_selected_page(app).id] = "Saved"

\* C15: a pending edited-file path is present exactly when the area is the
\* save popup: OpenEditor sets it on entering the popup, and leaving the
\* popup through ConfirmSave and Save or through RejectSave clears it
C15_PathIffSavePopup ==
    app.edited_file_path # None <=> app.current_area = "SavePopup"

\* the save popup was left through RejectSave and the path is still held
C15_Witness ==
    /\ trail = <<"OpenEditor", "RejectSave">>
    /\ app.current_area = "Pages"
    /\ app.edited_file_path # None

\* C18: when the upload of Save fails, the area in which the error surfaces
\* is Pages and no Refresh is chained
C18_FailedSaveBrowsesPages ==
    [][pc = "update" /\ msg = Msg("Save") /\ pc' = "error"
         => app'.current_area = "Pages" /\ msg' = NoMsg]_vars

\* the upload has failed and the save popup is still the area
C18_Witness ==
    /\ pc = "error"
    /\ trail = <<"OpenEditor", "ConfirmSave", "Save">>
    /\ msg = NoMsg
    /\ app.current_area = "SavePopup"

\* C19: history.txt is written with a page's id only once the edit of that
\* page has been published: it changes only in a step whose upload
\* succeeds, so an edit followed by RejectSave or by a failed upload leaves
\* it as it was
C19_HistoryOnlyAfterPublish ==
    [][history' # history => pc = "update" /\ msg = Msg("Save") /\ StepOk]_vars

\* a page was edited and the save rejected, and history.txt names the page
C19_Witness ==
    /\ trail = <<"OpenEditor", "RejectSave">>
    /\ HasSelectedPage(app)
    /\ history = get_selected_page(app).id
    /\ history # EarlierEdit
    /\ app.page_states_map[history] = "NotSaved"

\* C20: the terminal is held whenever the loop draws, reads an event or
\* applies a message; it is released only inside the editor call, and is
\* released while the editor runs; it is held again and fully cleared when
\* the editor call sets the save popup
C20_TerminalHeldOutsideEditor ==
    /\ [](/\ pc \in {"draw", "read", "update", "done"} => terminal # "released"
          /\ terminal = "released" => pc \in {"editor", "error"}
          /\ pc = "editor" => terminal = "released")
    /\ [][/\ terminal' = "released" /\ terminal # "released" => EditorCalled
          /\ app'.current_area = "SavePopup" /\ app.current_area # "SavePopup"
               => pc = "editor" /\ terminal' = "cleared"]_vars

\* the editor has exited and the save popup waits to be drawn on a cleared
\* terminal
C20_Witness ==
    /\ pc = "draw"
    /\ trail = <<"OpenEditor">>
    /\ app.current_area = "SavePopup"
    /\ terminal = "cleared"

\* C21: Exit, in whatever area it is processed, sets the exit flag, chains
\* no message and calls neither the store nor the editor; the loop then
\* ends: nothing is drawn, read or applied after it
C21_ExitEndsTheLoop ==
    /\ [](pc = "read"
            => \A area \in Areas, ok \in BOOLEAN :
                  LET before == [World EXCEPT !.app.current_area = area]
                      r == update(before, Msg("Exit"), ok, TRUE)
                  IN r = [before EXCEPT !.app.exit = TRUE])
    /\ [][/\ pc # "done"
          /\ app'.exit /\ ~app.exit
               => /\ pc' = "done" /\ msg' = NoMsg
                  /\ store' = store /\ history' = history
                  /\ app' = [app EXCEPT !.exit = TRUE]]_vars

\* the session was ended at the save popup: the edit is neither marked
\* Saved nor NotSaved
C21_Witness ==
    /\ pc = "done"
    /\ trail = <<"Exit">>
    /\ app.exit
    /\ app.current_area = "SavePopup"
    /\ HasSelectedPage(app)
    /\ get_selected_page(app).id \notin DOMAIN app.page_states_map

(***************************************************************************)
(* The managing session                                                    *)
(***************************************************************************)
\* C22: NewPage, processed while browsing pages, opens the new page popup
\* with an empty title, whatever happened before, a new page created from a
\* typed title included
C22_NewPageStartsEmpty ==
    BrowsingPages
        => LET r == update(World, Msg("NewPage"), TRUE, TRUE)
           IN /\ r.res = "ok"
              /\ r.app.current_area = "NewPagePopup"
              /\ r.app.new_page_title = <<>>

\* a page was created from a typed title and the popup opened again: the
\* title of the page created is still in it
C22_Witness ==
    /\ trail = <<"NewPage", "TypeChar", "SaveNewPage", "Refresh", "NewPage">>
    /\ app.current_area = "NewPagePopup"
    /\ app.new_page_title # <<>>
    /\ app.new_page_title \in Titles(store)

\* the pages are in the order of their creation dates, earliest first
ByDateAscending(pages) ==
    \A i \in 1..Len(pages), j \in 1..Len(pages) :
        i < j => get_date_created(pages[i]) <= get_date_created(pages[j])

\* C24: browsing spaces with a space selected, a Select whose fetch succeeds
\* shows the page list, holding the store's pages of that space by creation
\* date ascending, with no page selected; with no space selected Select
\* does nothing and fetches nothing
C24_SelectSpaceLoadsPages ==
    pc = "read" /\ app.current_area = "Spaces"
        => IF get_selected_space(app) # None
           THEN /\ Selected.res = "ok" /\ Selected.next = NoMsg
                /\ Selected.app.current_area = "Pages"
                /\ Len(Selected.app.page_list) = Len(store.pages[get_selected_space(app)])
                /\ PageSet(Selected.app.page_list)
                     = PageSet(store.pages[get_selected_space(app)])
                /\ ByDateAscending(Selected.app.page_list)
                /\ Selected.app.page_list_state.selected = None
                /\ Selected.store = store
           ELSE \A ok \in BOOLEAN : update(World, Msg("Select"), ok, TRUE) = World

\* a space was selected: its pages are loaded, in an order the server did
\* not list them in, and have not been drawn yet
C24_Witness ==
    /\ pc = "draw"
    /\ app.current_area = "Pages"
    /\ app.page_list_pos = BoundsDefault
    /\ Len(app.page_list) > 1
    /\ app.page_list # store.pages[get_selected_space(app)]
    /\ app.page_list_state.selected = None

\* the map without the entry of a key
MapRemove(map, key) == [k \in (DOMAIN map) \ {key} |-> map[k]]

StampLess(p, q) ==
    \/ p.created_at[1] < q.created_at[1]
    \/ p.created_at[1] = q.created_at[1] /\ p.created_at[2] < q.created_at[2]

\* no page of the list comes before a page whose timestamp is smaller
\* (Asc) or larger (Desc)
ByStamp(pages, sort_dir) ==
    \A i \in 1..Len(pages), j \in 1..Len(pages) :
        i < j => IF sort_dir = "Asc" THEN ~StampLess(pages[j], pages[i])
                 ELSE ~StampLess(pages[i], pages[j])

\* the sort popup opened, the direction toggled or not, the sort confirmed
Sorted(toggles) == Run(World, <<Msg("StartSort")>> \o toggles \o <<Msg("ConfirmSort")>>)

\* C26: after ConfirmSort with the creation date selected as the key, the
\* page list is ordered by the whole creation timestamp, ascending for Asc
\* and descending for Desc, so pages created on one date are ordered by
\* their time
C26_SortByWholeTimestamp ==
    BrowsingPages
        => \A toggles \in {<<>>, <<Msg("ToggleSortDir")>>} :
              (/\ Sorted(toggles).res = "ok"
               /\ HasSelectedSort(Sorted(toggles).app)
               /\ get_selected_sort(Sorted(toggles).app)[1] = "CreatedOn")
                  => ByStamp(Sorted(toggles).app.page_list,
                             get_selected_sort(Sorted(toggles).app)[2])

\* sorted by creation date descending, a page created earlier on a date
\* stands before a page created later on that date
C26_Witness ==
    /\ pc = "draw"
    /\ trail = <<"StartSort", "ToggleSortDir", "ConfirmSort">>
    /\ HasSelectedSort(app)
    /\ get_selected_sort(app) = <<"CreatedOn", "Desc">>
    /\ \E i \in 1..Len(app.page_list), j \in 1..Len(app.page_list) :
          /\ i < j
          /\ get_date_created(app.page_list[i]) = get_date_created(app.page_list[j])
          /\ StampLess(app.page_list[i], app.page_list[j])

\* the ids of the pages of the store
Ids(st) == UNION {{st.pages[sp][i].id : i \in 1..Len(st.pages[sp])} : sp \in DOMAIN st.pages}

\* C27: the store loses a page only in a step that processes
\* ConfirmDeletePage at the delete popup; the page lost is the one selected
\* when DeletePage opened the popup (the selection does not move under the
\* popup), the area becomes Pages and Refresh is chained; CancelDeletePage
\* leaves the store as it is
C27_DeleteOnlyWhenConfirmed ==
    [][/\ Ids(store) \ Ids(store') # {}
           => /\ pc = "read" /\ app.current_area = "DeletePopup"
              /\ HasSelectedPage(app)
              /\ store' = delete_page(store, get_selected_page(app))
              /\ Ids(store) \ Ids(store') = {get_selected_page(app).id}
              /\ app' = [app EXCEPT !.current_area = "Pages"]
              /\ pc' = "update" /\ msg' = Msg("Refresh")
       /\ app.current_area = "DeletePopup" /\ app'.current_area = "DeletePopup"
           => /\ app'.page_list = app.page_list
              /\ app'.page_list_state.selected = app.page_list_state.selected
              /\ store' = store
       /\ app.current_area # "DeletePopup" /\ app'.current_area = "DeletePopup"
           => /\ HasSelectedPage(app)
              /\ app' = [app EXCEPT !.current_area = "DeletePopup"]
              /\ store' = store
       /\ Applies(<<"DeletePage", "CancelDeletePage">>)
           => store' = store /\ app' = [app EXCEPT !.current_area = "Pages"]
      ]_vars

\* a page was deleted and the list refreshed: the store has lost a page and
\* the page list shows what is left
C27_Witness ==
    /\ pc = "draw"
    /\ trail = <<"DeletePage", "ConfirmDeletePage", "Refresh">>
    /\ app.current_area = "Pages"
    /\ Ids(InitStore(ManageSpaces)) \ Ids(store) # {}
    /\ PageSet(app.page_list) = PageSet(store.pages[get_selected_space(app)])

\* C28: browsing spaces or pages, a click with left < x < right and
\* top < y < top + 1 + (length - scroll offset) selects the index
\* (y - top - 1) + scroll offset of the focused list, which is below the
\* length of the list, and changes nothing else
C28_ClickInsideSelectsRow ==
    pc = "read" /\ app.current_area \in {"Spaces", "Pages"}
        => \A x \in 0..PageRight, y \in 0..(ListTop + ListHeight + 1), wrap \in BOOLEAN :
              LET pos == FocusedPos(app)
                  ls == FocusedState(app)
                  index == (y - pos.top - 1) + ls.offset
                  r == update(World, MouseSelect(x, y), TRUE, wrap)
              IN (/\ pos.left < x /\ x < pos.right
                  /\ pos.top < y /\ y < pos.top + 1 + (FocusedLength(app) - ls.offset))
                     => /\ r.res = "ok" /\ r.next = NoMsg
                        /\ index < FocusedLength(app)
                        /\ r.app = SetFocused(app, select(ls, index))

\* a click has selected a row the second of the list, scrolled to the top
C28_Witness ==
    /\ pc = "draw"
    /\ trail = <<"MouseSelect">>
    /\ app.current_area = "Pages"
    /\ app.page_list_state.offset = 1
    /\ app.page_list_state.selected = 1
    /\ HasSelectedPage(app)

\* enum Message: every variant, with a character and a position for the
\* two that carry one
Messages ==
    {Msg(t) : t \in {"Exit", "ListNext", "ListPrevious", "Select", "OpenEditor",
                     "ConfirmSave", "RejectSave", "Save", "Back", "Refresh",
                     "NewPage", "CancelNewPage", "SaveNewPage", "Backspace",
                     "CursorLeft", "CursorRight", "DeletePage", "ConfirmDeletePage",
                     "CancelDeletePage", "StartSearch", "ConfirmSearch",
                     "CancelSearch", "TogglePreview", "ToggleHelp", "StartSort",
                     "ConfirmSort", "CancelSort", "ToggleSortDir", "UpdateTitle",
                     "CancelTitle", "ConfirmTitle"}}
    \cup {TypeChar(Ch_a), MouseSelect(ListTop, ListTop + 1)}

\* the number of messages run() applies from m on before its inner loop
\* ends, every call succeeding; counted as far as fuel reaches
RECURSIVE ChainLength(_, _, _)
ChainLength(w, m, fuel) ==
    IF m = NoMsg \/ fuel = 0 THEN 0
    ELSE LET r == update(w, m, TRUE, TRUE)
         IN IF r.res = "ok" THEN 1 + ChainLength(r, r.next, fuel - 1) ELSE 1

\* C29: every message starts a finite chain of follow-up messages, none
\* longer than ConfirmSave, Save, Refresh; the chained messages are applied
\* before anything is drawn or read, and the loop then goes back to draw
\* and read unless exit was requested or an error was returned
C29_ChainsEndBeforeTheNextDraw ==
    /\ [](pc = "read"
            => /\ \A area \in Areas, m \in Messages :
                     ChainLength([World EXCEPT !.app.current_area = area], m, 5) <= 3
               /\ app.current_area = "SavePopup"
                    => ChainLength(World, Msg("ConfirmSave"), 5) = 3)
    /\ [][/\ pc' = "read" => pc = "draw" /\ msg' = NoMsg
          /\ pc = "update" => msg # NoMsg /\ pc' \in {"update", "editor", "draw", "error"}
          /\ pc' = "update" => msg' # NoMsg /\ pc \in {"read", "update"}
          /\ pc' = "draw" => msg' = NoMsg /\ ~app'.exit
          /\ pc \in {"read", "update"} /\ msg' = NoMsg /\ StepOk /\ pc' # "editor"
               => pc' = IF app'.exit THEN "done" ELSE "draw"]_vars

\* the longest chain has been applied and the loop is back at its top
C29_Witness ==
    /\ pc = "draw"
    /\ trail = EditRun
    /\ msg = NoMsg
    /\ ~app.exit

(***************************************************************************)
(* The text cursor outside the text popups                                 *)
(***************************************************************************)
\* the messages that close a text popup
TextExits(area) ==
    CASE area = "NewPagePopup" -> {"SaveNewPage", "CancelNewPage"}
      [] area = "SearchPopup" -> {"ConfirmSearch", "CancelSearch"}
      [] OTHER -> {"ConfirmTitle", "CancelTitle"}

\* the messages that open a text popup
TextEntries == {"NewPage", "StartSearch", "UpdateTitle"}

\* the loop of run() has not ended
Running == pc \in {"draw", "read", "update"}

CancelPopups == {"NewPagePopup", "DeletePopup", "SearchPopup", "SortPopup", "TitlePopup"}

CancelOf(area) ==
    CASE area = "NewPagePopup" -> "CancelNewPage"
      [] area = "DeletePopup" -> "CancelDeletePage"
      [] area = "SearchPopup" -> "CancelSearch"
      [] area = "SortPopup" -> "CancelSort"
      [] area = "TitlePopup" -> "CancelTitle"
      [] OTHER -> "RejectSave"

\* the cancel message of w's popup gives Ok(None) whether or not the store
\* answers, browses the pages, and keeps the store, history.txt, the page
\* list and its ListState
Cancels(w) ==
    \A ok \in BOOLEAN :
        LET r == update(w, Msg(CancelOf(w.app.current_area)), ok, TRUE)
        IN /\ r.res = "ok" /\ r.next = NoMsg
           /\ r.app.current_area = "Pages"
           /\ r.store = w.store /\ r.history = w.history
           /\ r.app.page_list = w.app.page_list
           /\ r.app.page_list_state = w.app.page_list_state

\* C32: CancelNewPage, CancelDeletePage, CancelSearch, CancelSort and
\* CancelTitle, each in its popup, and RejectSave in the save popup the
\* editor call opens on a selected page, set the area to Pages, call
\* nothing of the store, and leave the page list, its order and the page
\* cursor as they are
C32_CancelOnlyClosesThePopup ==
    pc = "read"
        => /\ app.current_area \in CancelPopups => Cancels(World)
           /\ app.current_area = "Pages" /\ HasSelectedPage(app)
                 => LET opened == update(World, Msg("OpenEditor"), TRUE, TRUE)
                    IN /\ opened.app.current_area = "SavePopup"
                       /\ Cancels([opened EXCEPT !.app = draw(opened.app)])

\* the delete popup was opened on a selected page and cancelled
C32_Witness ==
    /\ pc = "draw"
    /\ trail = <<"DeletePage", "CancelDeletePage">>
    /\ app.current_area = "Pages"
    /\ HasSelectedPage(app)
    /\ app.page_list_state.selected > 0
    /\ store = InitStore(StoreSpaces)

(***************************************************************************)
(* The popups that act on the selected page                                *)
(***************************************************************************)
PagePopups == {"SavePopup", "DeletePopup", "TitlePopup"}

\* the messages that open them
PopupOpeners == {"OpenEditor", "DeletePage", "UpdateTitle"}

\* the messages handle_events can give in an area: every key and every
\* mouse event
PopupInputs(area) ==
    ({handle_key_event(k, area) :
          k \in {Key(n) : n \in NamedKeys} \cup {Char(c) : c \in CommandChars \cup TextChars}}
     \cup {handle_mouse_event(e, area) : e \in MouseEvents}) \ {NoMsg}

\* in the drawn popup of w a page is selected, and no message an input
\* gives, whether or not its store call succeeds, changes the page list or
\* its ListState, nor does the draw that follows
PageHeld(w) ==
    /\ HasSelectedPage(w.app)
    /\ \A m \in PopupInputs(w.app.current_area), ok \in BOOLEAN :
          LET r == update(w, m, ok, TRUE)
          IN /\ r.app.page_list = w.app.page_list
             /\ r.app.page_list_state = w.app.page_list_state
             /\ draw(r.app).page_list_state = w.app.page_list_state

\* C33: while run() goes on, a page is selected whenever the area is the
\* save, delete or title popup; OpenEditor, DeletePage and UpdateTitle open
\* the popup on the page selected in Pages, with the page list and its
\* ListState as they were; and no key or mouse event in these popups
\* changes the page list or its ListState
C33_PopupKeepsTheSelectedPage ==
    /\ Running /\ app.current_area \in PagePopups => HasSelectedPage(app)
    /\ pc = "read" /\ app.current_area \in PagePopups => PageHeld(World)
    /\ pc = "read" /\ app.current_area = "Pages" /\ HasSelectedPage(app)
          => \A t \in PopupOpeners :
                LET r == update(World, Msg(t), TRUE, TRUE)
                    d == [r EXCEPT !.app = draw(r.app)]
                IN /\ r.res = "ok"
                   /\ r.app.current_area \in PagePopups
                   /\ d.app.page_list = app.page_list
                   /\ d.app.page_list_state = app.page_list_state
                   /\ get_selected_page(d.app).id = get_selected_page(app).id
                   /\ PageHeld(d)

\* the title popup is open on the second page of the list and a character
\* of the title has been removed
C33_Witness ==
    /\ pc = "draw"
    /\ app.current_area = "TitlePopup"
    /\ trail = <<"Backspace">>
    /\ app.page_list_state.selected = 1
    /\ HasSelectedPage(app)
    /\ app.page_updated_title # get_selected_page(app).title

(***************************************************************************)
(* Uploads                                                                 *)
(***************************************************************************)
\* C34: no message an input gives uploads a file in its own step, RejectSave
\* and Exit in the save popup included; a chained message uploads only if
\* it is Save in the save popup, chained from the ConfirmSave that answered
\* the popup the last OpenEditor opened, and its store call succeeds; the
\* upload is of the selected page, which is the page the editor was given
\* (its id is the one edit_page wrote to history.txt), and of the file whose
\* path that OpenEditor left in edited_file_path
C34_UploadOnlyBySave ==
    /\ pc = "read"
          => \A m \in PopupInputs(app.current_area), ok \in BOOLEAN :
                update(World, m, ok, TRUE).upload = <<>>
    /\ pc = "update"
          => \A ok \in BOOLEAN :
                LET r == update(World, msg, ok, TRUE)
                IN /\ r.upload # <<>>
                      => /\ ok /\ msg = Msg("Save")
                         /\ app.current_area = "SavePopup"
                         /\ trail = <<"OpenEditor", "ConfirmSave">>
                         /\ HasSelectedPage(app)
                         /\ history = get_selected_page(app).id
                         /\ app.edited_file_path = get_selected_page(app).id
                         /\ r.upload = <<history, app.edited_file_path>>
                   /\ msg = Msg("Save") /\ ok => r.upload # <<>>

\* the edit of the second page of a space has been uploaded and the refresh
\* is about to follow
C34_Witness ==
    /\ pc = "update"
    /\ msg = Msg("Refresh")
    /\ trail = <<"OpenEditor", "ConfirmSave", "Save">>
    /\ app.current_area = "Pages"
    /\ app.page_list_state.selected = 1
    /\ history = get_selected_page(app).id
    /\ app.edited_file_path = history

(***************************************************************************)
(* Where Refresh is processed                                              *)
(***************************************************************************)
\* the areas refresh_current_list accepts, with the space it expects
Refreshable(a) ==
    \/ a.current_area = "Spaces"
    \/ a.current_area = "Pages" /\ get_selected_space(a) # None

\* the arms that chain Refresh, each in the popup that gives its message
RefreshChains ==
    {<<"NewPagePopup", "SaveNewPage">>, <<"DeletePopup", "ConfirmDeletePage">>,
     <<"TitlePopup", "ConfirmTitle">>}

\* C35: a Refresh an input gives ('r') and a Refresh held as the chained
\* message are processed in Spaces, or in Pages with a space selected, and
\* refresh_current_list does not panic in them; SaveNewPage,
\* ConfirmDeletePage and ConfirmTitle, and the Save that follows OpenEditor
\* and ConfirmSave on a selected page, chain Refresh from such a state; and
\* the reload of a second ConfirmSearch does not panic either
C35_RefreshWhereItCanReload ==
    /\ pc = "update" /\ msg = Msg("Refresh")
          => /\ Refreshable(app)
             /\ \A ok \in BOOLEAN : update(World, msg, ok, TRUE).res # "panic"
    /\ pc = "read"
          => /\ \A m \in PopupInputs(app.current_area), ok \in BOOLEAN :
                   m = Msg("Refresh")
                      => /\ Refreshable(app)
                         /\ update(World, m, ok, TRUE).res # "panic"
             /\ \A c \in RefreshChains :
                   app.current_area = c[1]
                      => LET r == update(World, Msg(c[2]), TRUE, TRUE)
                         IN /\ r.res = "ok" /\ r.next = Msg("Refresh")
                            /\ Refreshable(r.app)
             /\ app.current_area = "Pages" /\ HasSelectedPage(app)
                   => LET r == Run(World, <<Msg("OpenEditor"), Msg("ConfirmSave"),
                                            Msg("Save")>>)
                      IN /\ r.res = "ok" /\ r.next = Msg("Refresh")
                         /\ Refreshable(r.app)
             /\ app.current_area = "Pages"
                   => Run(World, <<Msg("StartSearch"), Msg("ConfirmSearch"),
                                   Msg("StartSearch"), Msg("ConfirmSearch")>>).res = "ok"

\* a page was created and the chained Refresh has reloaded the page list
\* of the selected space with it
C35_Witness ==
    /\ pc = "draw"
    /\ trail = <<"NewPage", "TypeChar", "SaveNewPage", "Refresh">>
    /\ app.current_area = "Pages"
    /\ get_selected_space(app) # None
    /\ Len(app.page_list) = Len(store.pages[get_selected_space(app)])
    /\ Len(app.page_list) > Len(InitStore(ManageSpaces).pages[get_selected_space(app)])

(***************************************************************************)
(* ListNext and the length of the list                                     *)
(***************************************************************************)
\* C36: in every state in which run() waits for an event in a list area
\* (so that ListNext can be processed next), a list cursor that holds a
\* selection is over a list that is not empty: list_next does not evaluate
\* list_length - 1 with list_length = 0
C36_ListNextOnNonEmptyList ==
    pc = "read" /\ IsListArea(app.current_area) /\ FocusedState(app).selected # None
        => FocusedLength(app) > 0

\* a space without pages was selected and ListNext processed once: index 0
\* is selected over the empty page list, drawn, and Down can be pressed again
C36_Witness ==
    /\ pc = "read"
    /\ trail = <<"ListNext">>
    /\ app.current_area = "Pages"
    /\ app.page_list = <<>>
    /\ ~app.search.search_active
    /\ app.page_list_state.selected = 0
    /\ update(World, Msg("ListNext"), TRUE, FALSE).res = "panic"

(***************************************************************************)
(* The page list and the sort the popup holds                              *)
(***************************************************************************)
\* no page of the list sorts after a page that follows it
Ordered(pages, sort_type, sort_dir) ==
    \A i \in 1..Len(pages), j \in 1..Len(pages) :
        i < j => ~SortsAfter(pages[i], pages[j], sort_type, sort_dir)

\* C37: whenever run() waits for an event in Pages and the sort popup's
\* list holds a selection, the page list is in the order of the sort type
\* and direction the popup holds
C37_PagesOrderedBySortModel ==
    pc = "read" /\ app.current_area = "Pages" /\ HasSelectedSort(app)
        => Ordered(app.page_list, get_selected_sort(app)[1], get_selected_sort(app)[2])

\* a descending sort was confirmed and a second search then confirmed: the
\* sort popup still holds Desc, and the reloaded pages are listed in
\* ascending order of their dates
C37_Witness ==
    /\ pc = "draw"
    /\ trail = <<"ConfirmSearch", "StartSearch", "Backspace", "ConfirmSearch">>
    /\ app.current_area = "Pages"
    /\ HasSelectedSort(app)
    /\ get_selected_sort(app) = <<"CreatedOn", "Desc">>
    /\ app.sort.saved_state.dir_state = "Desc"
    /\ Len(app.page_list) > 1
    /\ ~Ordered(app.page_list, "CreatedOn", "Desc")
    /\ app.page_list = load_pages(app, store, get_selected_space(app)).page_list

(***************************************************************************)
(* The query of an inactive search                                         *)
(***************************************************************************)
\* C38: in every state whose area is not the search popup, a search that
\* is not active has an empty query
C38_InactiveSearchHasNoQuery ==
    app.current_area # "SearchPopup" /\ ~app.search.search_active
        => app.search.current_search = <<>>

\* a query was typed with no search active and the popup cancelled: the
\* pages are browsed with no search and no query
C38_Witness ==
    /\ pc = "draw"
    /\ trail = <<"TypeChar", "CancelSearch">>
    /\ app.current_area = "Pages"
    /\ ~app.search.search_active
    /\ app.search.current_search = <<>>

(***************************************************************************)
(* The command-line runs                                                   *)
(***************************************************************************)
\* the line is the number of one of the listed spaces
NamesASpace(space_list, user_input) ==
    /\ parse_usize(user_input).ok
    /\ 1 <= parse_usize(user_input).value
    /\ parse_usize(user_input).value <= Len(space_list)

\* C39: user_choose_space asks again as long as the line read is not a
\* number n with 1 <= n <= the number of listed spaces; the selection it
\* leaves the loop with is such an n, it does not panic, and it returns
\* the n-th listed space
C39_SelectionNamesASpace ==
    cli.cmd = "space"
        => /\ cli.at = "prompt"
                 => \A i \in 1..Len(cli.lines) : ~NamesASpace(cli.space_list, cli.lines[i])
           /\ cli.at \in {"chosen", "done", "panic"}
                 => /\ NamesASpace(cli.space_list, cli.lines[Len(cli.lines)])
                    /\ cli.selection = parse_usize(cli.lines[Len(cli.lines)]).value
           /\ cli.at # "panic"
           /\ cli.at = "done" => cli.chosen = cli.space_list[cli.selection]

\* two spaces are listed and the line "3" was read: the loop was left with
\* selection 3 and remove(2) panicked
C39_Witness ==
    /\ cli.cmd = "space"
    /\ cli.at = "panic"
    /\ Len(cli.space_list) = 2
    /\ cli.selection = 3
    /\ cli.lines[Len(cli.lines)] = <<51>>

\* C40: get_history_id gives None exactly for an empty history.txt, Some
\* exactly for a content that is not empty and all alphanumeric, and an
\* error otherwise; edit_last_page on an empty history.txt ends with the
\* error 'no history record' and asks the store for no page
C40_EmptyHistoryIsNoRecord ==
    cli.cmd = "last"
        => LET content == cli.history_string
               alphanumeric == \A i \in 1..Len(content) : is_alphanumeric(content[i])
           IN /\ get_history_id(content).res = "none" <=> content = <<>>
              /\ get_history_id(content).res = "some" <=> content # <<>> /\ alphanumeric
              /\ get_history_id(content).res = "err" <=> content # <<>> /\ ~alphanumeric
              /\ content = <<>> /\ cli.at # "start"
                    => /\ cli.at = "error"
                       /\ cli.error = "no history record"
                       /\ cli.fetched = <<>>

\* history.txt is empty: get_history_id gave Some of the empty string and
\* edit_id asked the store for the page with the empty id
C40_Witness ==
    /\ cli.cmd = "last"
    /\ cli.history_string = <<>>
    /\ cli.at = "error"
    /\ cli.error = "fetch"
    /\ cli.fetched = << <<>> >>

====
